---------------------------- MODULE Spec2Model ----------------------------
(***************************************************************************)
(* State-machine model of the Game Boy emulation core: the LR35902 CPU     *)
(* (src/src/cpu), the memory bus (src/src/memory/mmu.h), the PPU mode      *)
(* machine (src/src/graphics/ppu.cpp), the timer, the APU frame sequencer  *)
(* and sample ring (src/unnamed/part_004) and the per-frame scheduler loop *)
(* of Emulator::runWithDisplay.                                            *)
(*                                                                         *)
(* The imperative code is written functionally: an operator takes the      *)
(* machine `w` (a record with the fields cpu and mmu) and yields the       *)
(* machine after the call.  Memory arrays are kept sparse: an index that   *)
(* is absent from an array's domain holds the array's construction value.  *)
(***************************************************************************)
EXTENDS Integers, Sequences, FiniteSets, TLC

VARIABLES
    cpu,               \* CPU object: registers, flags, halted/stopped/ime/ime_scheduled, cycles
    mmu,               \* MMU object: wram, vram, hram, oam, io, ie_register, joypad, timer, apu, cartridge
    ppu,               \* PPU object: mode, mode_cycles, scanline, frame_ready, renders
    loop_pc,           \* position inside the body of the frame loop of runWithDisplay
    cycles_elapsed,    \* local of the frame loop: cpu.cycles - cycles_before
    cycles_this_frame, \* local of runWithDisplay: cycles run in the current frame
    mid,               \* history: IME, IF, IE, PC, SP between executeOpcode and handleInterrupts
    hist,              \* history: the last CPU::step calls (opcode, PC, IME, IF, IE of each)
    vblanks,           \* history: cpu.cycles and mode_cycles at the last two V-blank entries
    iterations,        \* history: passes of the inner frame loop made in the current frame
    audio,             \* the two audio threads: calls made, next sample, the callback's stream
    calls,             \* history: operations called on the bus or the save state directly
    state_file,        \* the file quicksave.state
    cycle_cap          \* exploration bound: no CPU::step starts once cpu.cycles reached it

vars == <<cpu, mmu, ppu, loop_pc, cycles_elapsed, cycles_this_frame, mid, hist, vblanks,
          iterations, audio, calls, state_file, cycle_cap>>

----------------------------------------------------------------------------
(* Fixed-width integer helpers (u8 / u16 / u32 of utils/types.h)           *)

Byte == 0..255

U8(x)  == x % 256
U16(x) == x % 65536
\* u32: cpu.cycles and cycles_this_frame stay below cycle_cap + 32, far from the
\* wrap at 2^32 (which is outside TLC's integers), so the reduction never applies
U32(x) == x

\* static_cast<i8>(b)
I8(b) == IF b >= 128 THEN b - 256 ELSE b

\* Bind(e, LAMBDA x : body) is body with x naming the value of e: a local
\* `auto x = e;` of the source
Bind(x, K(_)) == K(x)

Bit(x, i) == (x \div (2^i)) % 2

TEST_BIT(x, i) == Bit(x, i) = 1

RECURSIVE AndBits(_, _, _)
\* x & y on the low n bits
AndBits(x, y, n) ==
    IF n = 0 THEN 0
    ELSE (x % 2) * (y % 2) + 2 * AndBits(x \div 2, y \div 2, n - 1)

And8(x, y) == AndBits(x, y, 8)

Or8(x, y) == x + y - And8(x, y)

Xor8(x, y) == x + y - 2 * And8(x, y)

\* (u8) ~x
Not8(x) == 255 - x

\* x & ~(1 << i) on a byte
ClearBit(x, i) == x - (2^i) * Bit(x, i)

\* x | (1 << i) on a byte
SetBit(x, i) == x + (2^i) * (1 - Bit(x, i))

Lo(x) == x % 256
Hi(x) == (x \div 256) % 256
Word(hi, lo) == hi * 256 + lo

----------------------------------------------------------------------------
(* Sparse arrays                                                           *)

Get(arr, i, dflt) == IF i \in DOMAIN arr THEN arr[i] ELSE dflt

Put(arr, i, v, dflt) ==
    IF v = dflt
    THEN [j \in (DOMAIN arr) \ {i} |-> arr[j]]
    ELSE [j \in (DOMAIN arr) \cup {i} |-> IF j = i THEN v ELSE arr[j]]

Empty == [j \in {} |-> 0]

----------------------------------------------------------------------------
(* Joypad (src/unnamed/part_002, part_003)                                 *)

BTN_A      == 1
BTN_B      == 2
BTN_SELECT == 4
BTN_START  == 8
BTN_RIGHT  == 16
BTN_LEFT   == 32
BTN_UP     == 64
BTN_DOWN   == 128

Joypad_new == [buttons |-> 0, select_reg |-> 0]

Joypad_write(j, value) == [j EXCEPT !.select_reg = And8(value, 48)]

\* bit k of the result is cleared when the action button a or the direction d of
\* that line is held and its group is selected
Joypad_line(j, select, k, a, d) ==
    IF (~TEST_BIT(select, 5) /\ And8(j.buttons, a) # 0)
       \/ (~TEST_BIT(select, 4) /\ And8(j.buttons, d) # 0)
    THEN 2^k ELSE 0

\* variant: Select and Start change lines
Joypad_read_swapped(j, select) ==
    207 - Joypad_line(j, select, 0, BTN_A, BTN_RIGHT)
        - Joypad_line(j, select, 1, BTN_B, BTN_LEFT)
        - Joypad_line(j, select, 2, BTN_START, BTN_UP)
        - Joypad_line(j, select, 3, BTN_SELECT, BTN_DOWN)

Joypad_read(j, select) ==
    207 - Joypad_line(j, select, 0, BTN_A, BTN_RIGHT)
        - Joypad_line(j, select, 1, BTN_B, BTN_LEFT)
        - Joypad_line(j, select, 2, BTN_SELECT, BTN_UP)
        - Joypad_line(j, select, 3, BTN_START, BTN_DOWN)

----------------------------------------------------------------------------
(* Cartridge (src/src/memory/cartridge.cpp).  rom and ram are sparse; a    *)
(* byte that is not listed is 0x00.                                        *)

\* cartridge types by group
MBC1_types == {1, 2, 3}
MBC2_types == {5, 6}
MBC3_types == 15..19
MBC5_types == 25..30

\* switch (ram_size_code)
Cartridge_ramSize(ram_size_code) ==
    CASE ram_size_code = 0 -> 0
      [] ram_size_code = 1 -> 2048
      [] ram_size_code = 2 -> 8192
      [] ram_size_code = 3 -> 32768
      [] ram_size_code = 4 -> 131072
      [] ram_size_code = 5 -> 65536
      [] OTHER -> 32768

Cartridge_readROM(cart, addr) ==
    IF addr < 16384
    THEN IF addr < cart.size THEN Get(cart.rom, addr, 0) ELSE 255
    ELSE LET physical_addr == cart.rom_bank * 16384 + (addr - 16384)
         IN  IF physical_addr < cart.size THEN Get(cart.rom, physical_addr, 0) ELSE 255

\* the MBC3 RTC register selected by ram_bank 0x08-0x0C
Cartridge_rtc(cart) ==
    CASE cart.ram_bank = 8  -> cart.rtc_seconds
      [] cart.ram_bank = 9  -> cart.rtc_minutes
      [] cart.ram_bank = 10 -> cart.rtc_hours
      [] cart.ram_bank = 11 -> cart.rtc_days_low
      [] OTHER              -> cart.rtc_days_high

Cartridge_readRAM(cart, addr) ==
    IF ~cart.ram_enabled \/ cart.ram_size = 0
    THEN IF cart.mbc_type \in MBC2_types /\ cart.ram_size >= 512
         THEN Get(cart.ram, addr % 512, 0) % 16
         ELSE 255
    ELSE IF cart.mbc_type \in MBC3_types /\ cart.ram_bank >= 8 /\ cart.ram_bank <= 12
    THEN Cartridge_rtc(cart)
    ELSE IF cart.mbc_type \in MBC2_types
    THEN Get(cart.ram, addr % 512, 0) % 16
    ELSE IF (cart.ram_bank * 8192) + addr < cart.ram_size
    THEN Get(cart.ram, (cart.ram_bank * 8192) + addr, 0)
    ELSE 255

\* variant: bank 0 stays bank 0
Cartridge_bank_zero(bank) == bank

\* bank 0 selects bank 1
Cartridge_bank(bank) == IF bank = 0 THEN 1 ELSE bank

Cartridge_writeMBC1(cart, addr, value) ==
    IF addr < 8192 THEN [cart EXCEPT !.ram_enabled = (value % 16 = 10)]
    ELSE IF addr < 16384
    THEN [cart EXCEPT !.rom_bank = (((@ \div 32) % 4) * 32) + Cartridge_bank(value % 32)]
    ELSE IF addr < 24576
    THEN IF cart.rom_banking
         THEN [cart EXCEPT !.rom_bank = (@ % 32) + ((value % 4) * 32)]
         ELSE [cart EXCEPT !.ram_bank = value % 4]
    ELSE IF addr < 32768
    THEN [cart EXCEPT !.rom_banking = (value % 2 = 0),
                      !.ram_bank = IF value % 2 = 0 THEN 0 ELSE @]
    ELSE cart

Cartridge_writeMBC2(cart, addr, value) ==
    IF addr < 16384
    THEN IF Bit(addr, 8) = 0
         THEN [cart EXCEPT !.ram_enabled = (value % 16 = 10)]
         ELSE [cart EXCEPT !.rom_bank = Cartridge_bank(value % 16)]
    ELSE cart

Cartridge_writeMBC3(cart, addr, value) ==
    IF addr < 8192 THEN [cart EXCEPT !.ram_enabled = (value % 16 = 10)]
    ELSE IF addr < 16384 THEN [cart EXCEPT !.rom_bank = Cartridge_bank(value % 128)]
    ELSE IF addr < 24576 THEN [cart EXCEPT !.ram_bank = value]
    ELSE IF addr < 32768
    THEN [cart EXCEPT !.rtc_latched = (@ \/ (cart.rtc_latch_state = 0 /\ value = 1)),
                      !.rtc_latch_state = value]
    ELSE cart

Cartridge_writeMBC5(cart, addr, value) ==
    IF addr < 8192 THEN [cart EXCEPT !.ram_enabled = (value % 16 = 10)]
    ELSE IF addr < 12288 THEN [cart EXCEPT !.rom_bank = (((@ \div 256) % 2) * 256) + value]
    ELSE IF addr < 16384 THEN [cart EXCEPT !.rom_bank = (@ % 256) + ((value % 2) * 256)]
    ELSE IF addr < 24576 THEN [cart EXCEPT !.ram_bank = value % 16]
    ELSE cart

\* switch (mbc_type): type 0x00 and unknown types have no banking
Cartridge_writeROM(cart, addr, value) ==
    CASE cart.mbc_type \in MBC1_types -> Cartridge_writeMBC1(cart, addr, value)
      [] cart.mbc_type \in MBC2_types -> Cartridge_writeMBC2(cart, addr, value)
      [] cart.mbc_type \in MBC3_types -> Cartridge_writeMBC3(cart, addr, value)
      [] cart.mbc_type \in MBC5_types -> Cartridge_writeMBC5(cart, addr, value)
      [] OTHER -> cart

Cartridge_writeRAM(cart, addr, value) ==
    IF ~cart.ram_enabled THEN cart
    ELSE IF cart.mbc_type \in MBC3_types /\ cart.ram_bank >= 8 /\ cart.ram_bank <= 12
    THEN CASE cart.ram_bank = 8  -> [cart EXCEPT !.rtc_seconds = value]
           [] cart.ram_bank = 9  -> [cart EXCEPT !.rtc_minutes = value]
           [] cart.ram_bank = 10 -> [cart EXCEPT !.rtc_hours = value]
           [] cart.ram_bank = 11 -> [cart EXCEPT !.rtc_days_low = value]
           [] OTHER              -> [cart EXCEPT !.rtc_days_high = value]
    ELSE IF cart.ram_size = 0 THEN cart
    ELSE IF cart.mbc_type \in MBC2_types
    THEN [cart EXCEPT !.ram = Put(@, addr % 512, value % 16, 0)]
    ELSE IF (cart.ram_bank * 8192) + addr < cart.ram_size
    THEN [cart EXCEPT !.ram = Put(@, (cart.ram_bank * 8192) + addr, value, 0)]
    ELSE cart

\* the cartridge read from a file of `size` bytes: type at 0x0147, RAM size
\* code at 0x0149
Cartridge_load(image, size) ==
    [rom |-> image, size |-> size, mbc_type |-> Get(image, 327, 0),
     ram |-> Empty, ram_size |-> Cartridge_ramSize(Get(image, 329, 0)),
     rom_bank |-> 1, ram_bank |-> 0, ram_enabled |-> FALSE, rom_banking |-> TRUE,
     rtc_seconds |-> 0, rtc_minutes |-> 0, rtc_hours |-> 0, rtc_days_low |-> 0,
     rtc_days_high |-> 0, rtc_latched |-> FALSE, rtc_latch_state |-> 255]

\* a 32 KiB image
Cartridge_new(image) == Cartridge_load(image, 32768)

----------------------------------------------------------------------------
(* MMU (src/src/memory/mmu.h)                                              *)

\* io[] after MMU::MMU()
IoReset(i) ==
    CASE i = 0  -> 207   \* 0xCF P1
      [] i = 15 -> 224   \* 0xE0 IF
      [] i = 16 -> 128   \* NR10
      [] i = 17 -> 191   \* NR11
      [] i = 18 -> 243   \* NR12
      [] i = 20 -> 191   \* NR14
      [] i = 22 -> 63    \* NR21
      [] i = 25 -> 191   \* NR24
      [] i = 26 -> 127   \* NR30
      [] i = 27 -> 255   \* NR31
      [] i = 28 -> 159   \* NR32
      [] i = 30 -> 191   \* NR33
      [] i = 32 -> 255   \* NR41
      [] i = 35 -> 191
      [] i = 36 -> 119   \* NR50
      [] i = 37 -> 243   \* NR51
      [] i = 38 -> 241   \* NR52
      [] i = 64 -> 145   \* 0x91 LCDC
      [] i = 71 -> 252   \* 0xFC BGP
      [] i = 72 -> 255   \* OBP0
      [] i = 73 -> 255   \* OBP1
      [] OTHER  -> 0

Io(m, i) == IF i \in DOMAIN m.io THEN m.io[i] ELSE IoReset(i)

SetIo(m, i, v) ==
    [m EXCEPT !.io = IF v = IoReset(i)
                     THEN [j \in (DOMAIN m.io) \ {i} |-> m.io[j]]
                     ELSE [j \in (DOMAIN m.io) \cup {i} |-> IF j = i THEN v ELSE m.io[j]]]

Timer_new == [div_counter |-> 0, tima_counter |-> 0]

\* SquareChannel after `ch = {0}`
SquareChannel_new ==
    [nr_0 |-> 0, nr_1 |-> 0, nr_2 |-> 0, nr_3 |-> 0, nr_4 |-> 0, enabled |-> FALSE,
     timer |-> 0, duty_pos |-> 0, length_counter |-> 0, volume |-> 0,
     envelope_timer |-> 0, output |-> 0]

\* APU::APU: registers (index = address - 0xFF10, NR52 = 0xF1), the two square
\* channels, the frame sequencer and the sample ring.  A call of clockLength,
\* clockSweep or clockEnvelope is also kept as a count (length_clocks,
\* sweep_clocks, envelope_clocks).
APU_new ==
    [registers |-> Put(Empty, 22, 241, 0), ch1 |-> SquareChannel_new,
     ch2 |-> SquareChannel_new,
     frame_sequencer |-> 0, frame_sequencer_cycles |-> 0,
     length_clocks |-> 0, sweep_clocks |-> 0, envelope_clocks |-> 0,
     sample_buffer |-> Empty, buffer_write_pos |-> 0, buffer_read_pos |-> 0]

\* APU::triggerSquareChannel
triggerSquareChannel(ch) ==
    [ch EXCEPT !.enabled = TRUE,
               !.volume = ch.nr_2 \div 16,
               !.envelope_timer = ch.nr_2 % 8,
               !.timer = (2048 - (ch.nr_3 + (ch.nr_4 % 8) * 256)) * 4,
               !.length_counter = IF @ = 0 THEN 64 ELSE @]

\* the channel part of APU::write: register r (NRx0..NRx4) of channel ch
SquareChannel_write(ch, r, value) ==
    CASE r = 0 -> [ch EXCEPT !.nr_0 = value]
      [] r = 1 -> [ch EXCEPT !.nr_1 = value, !.length_counter = 64 - (value % 64)]
      [] r = 2 -> [ch EXCEPT !.nr_2 = value]
      [] r = 3 -> [ch EXCEPT !.nr_3 = value]
      [] r = 4 -> IF value >= 128 THEN triggerSquareChannel([ch EXCEPT !.nr_4 = value])
                  ELSE [ch EXCEPT !.nr_4 = value]

\* APU::write: b is the APU after `registers[addr - 0xFF10] = value`
APU_write(a, addr, value) ==
    IF addr >= 65296 /\ addr <= 65343
    THEN Bind([a EXCEPT !.registers = Put(@, addr - 65296, value, 0)], LAMBDA b :
        IF addr = 65318 THEN
            IF value < 128
            THEN [b EXCEPT !.registers = [j \in {k \in DOMAIN b.registers : k >= 32} |->
                                              b.registers[j]],
                           !.ch1.enabled = FALSE, !.ch2.enabled = FALSE]
            ELSE b
        ELSE IF Get(b.registers, 22, 0) < 128 THEN b
        ELSE IF addr >= 65296 /\ addr <= 65300
             THEN [b EXCEPT !.ch1 = SquareChannel_write(@, addr - 65296, value)]
        ELSE IF addr >= 65302 /\ addr <= 65305
             THEN [b EXCEPT !.ch2 = SquareChannel_write(@, addr - 65301, value)]
        ELSE b)
    ELSE a

APU_read(a, addr) ==
    IF addr >= 65296 /\ addr <= 65343
    THEN IF addr = 65318
         THEN (Get(a.registers, 22, 0) \div 16) * 16
                + (IF a.ch1.enabled THEN 1 ELSE 0) + (IF a.ch2.enabled THEN 2 ELSE 0)
         ELSE Get(a.registers, addr - 65296, 0)
    ELSE 255

MMU_new(image) ==
    [wram |-> Empty, vram |-> Empty, hram |-> Empty, oam |-> Empty, io |-> Empty,
     ie_register |-> 0, joypad |-> Joypad_new, timer |-> Timer_new, apu |-> APU_new,
     cartridge |-> Cartridge_new(image)]


\* MMU::loadCartridge for a file of `size` bytes
MMU_loadCartridge(m, image, size) == [m EXCEPT !.cartridge = Cartridge_load(image, size)]

\* variant: the echo region reads the upper half of work RAM
MMU_read_echoHigh(m, addr) ==
    IF addr < 32768 THEN Cartridge_readROM(m.cartridge, addr)
    ELSE IF addr < 40960 THEN Get(m.vram, addr - 32768, 0)
    ELSE IF addr < 49152 THEN Cartridge_readRAM(m.cartridge, addr - 40960)
    ELSE IF addr < 57344 THEN Get(m.wram, addr - 49152, 0)
    ELSE IF addr < 65024 THEN Get(m.wram, (addr - 57344 + 4096) % 8192, 0)
    ELSE IF addr < 65184 THEN Get(m.oam, addr - 65024, 0)
    ELSE IF addr < 65280 THEN 255
    ELSE IF addr < 65408 THEN
        IF addr = 65280 THEN Joypad_read(m.joypad, Io(m, 0))
        ELSE Io(m, addr - 65280)
    ELSE IF addr < 65535 THEN Get(m.hram, addr - 65408, 0)
    ELSE m.ie_register

MMU_read(m, addr) ==
    IF addr < 32768 THEN Cartridge_readROM(m.cartridge, addr)
    ELSE IF addr < 40960 THEN Get(m.vram, addr - 32768, 0)
    ELSE IF addr < 49152 THEN Cartridge_readRAM(m.cartridge, addr - 40960)
    ELSE IF addr < 57344 THEN Get(m.wram, addr - 49152, 0)
    ELSE IF addr < 65024 THEN Get(m.wram, addr - 57344, 0)
    ELSE IF addr < 65184 THEN Get(m.oam, addr - 65024, 0)
    ELSE IF addr < 65280 THEN 255
    ELSE IF addr < 65408 THEN
        IF addr = 65280 THEN Joypad_read(m.joypad, Io(m, 0))
        ELSE Io(m, addr - 65280)
    ELSE IF addr < 65535 THEN Get(m.hram, addr - 65408, 0)
    ELSE m.ie_register

\* Timer::resetDIV
resetDIV(t) == [t EXCEPT !.div_counter = 0]

RECURSIVE DMA_copy(_, _, _, _)
\* the passes lo .. hi-1 of the loop of MMU::doDMATransfer, in order: the first
\* half of them, then the second half on the bus the first half left
DMA_copy(m, source, lo, hi) ==
    IF lo >= hi THEN m
    ELSE IF hi = lo + 1
    THEN [m EXCEPT !.oam = Put(m.oam, lo, MMU_read(m, U16(source + lo)), 0)]
    ELSE CHOOSE r \in {DMA_copy(n, source, (lo + hi) \div 2, hi) :
                          n \in {DMA_copy(m, source, lo, (lo + hi) \div 2)}} : TRUE

\* variant: the source page is taken from the low 7 bits
doDMATransfer_low(m, value) == DMA_copy(m, (value % 128) * 256, 0, 160)

doDMATransfer(m, value) == DMA_copy(m, value * 256, 0, 160)

MMU_write(m, addr, value) ==
    IF addr < 32768 THEN
        [m EXCEPT !.cartridge = Cartridge_writeROM(m.cartridge, addr, value)]
    ELSE IF addr < 40960 THEN [m EXCEPT !.vram = Put(m.vram, addr - 32768, value, 0)]
    ELSE IF addr < 49152 THEN
        [m EXCEPT !.cartridge = Cartridge_writeRAM(m.cartridge, addr - 40960, value)]
    ELSE IF addr < 57344 THEN [m EXCEPT !.wram = Put(m.wram, addr - 49152, value, 0)]
    ELSE IF addr < 65024 THEN [m EXCEPT !.wram = Put(m.wram, addr - 57344, value, 0)]
    ELSE IF addr < 65184 THEN [m EXCEPT !.oam = Put(m.oam, addr - 65024, value, 0)]
    ELSE IF addr < 65280 THEN m
    ELSE IF addr < 65408 THEN
        IF addr = 65280 THEN
            SetIo([m EXCEPT !.joypad = Joypad_write(m.joypad, value)], 0, value)
        ELSE IF addr = 65284 THEN
            SetIo([m EXCEPT !.timer = resetDIV(m.timer)], 4, 0)
        ELSE IF addr >= 65296 /\ addr <= 65343 THEN
            [m EXCEPT !.apu = APU_write(@, addr, value)]
        ELSE IF addr = 65348 THEN SetIo(m, 68, 0)
        ELSE IF addr = 65350 THEN SetIo(doDMATransfer(m, value), 70, value)
        ELSE SetIo(m, addr - 65280, value)
    ELSE IF addr < 65535 THEN [m EXCEPT !.hram = Put(m.hram, addr - 65408, value, 0)]
    ELSE [m EXCEPT !.ie_register = value]

\* MMU::setLY
setLY(m, value) == SetIo(m, 68, value)

----------------------------------------------------------------------------
(* CPU: register file and helpers (cpu.h at src/src/cpu/instructions.cpp   *)
(* lines 1160-1376, src/src/cpu/cpu.cpp)                                   *)

FLAG_Z == 128
FLAG_N == 64
FLAG_H == 32
FLAG_C == 16

\* CPU::reset
reset ==
    [A |-> 1, F |-> 176, B |-> 0, C |-> 19, D |-> 0, E |-> 216, H |-> 1, L |-> 77,
     SP |-> 65534, PC |-> 256,
     halted |-> FALSE, stopped |-> FALSE, ime |-> FALSE, ime_scheduled |-> FALSE,
     cycles |-> 0]

getAF(c) == Word(c.A, c.F)
getBC(c) == Word(c.B, c.C)
getDE(c) == Word(c.D, c.E)
getHL(c) == Word(c.H, c.L)

\* setAF storing the low byte unmasked
setAF_unmasked(c, val) == [c EXCEPT !.A = Hi(val), !.F = Lo(val)]

setAF(c, val) == [c EXCEPT !.A = Hi(val), !.F = And8(Lo(val), 240)]
setBC(c, val) == [c EXCEPT !.B = Hi(val), !.C = Lo(val)]
setDE(c, val) == [c EXCEPT !.D = Hi(val), !.E = Lo(val)]
setHL(c, val) == [c EXCEPT !.H = Hi(val), !.L = Lo(val)]

getFlag(c, flag) == And8(c.F, flag) # 0

setFlag(c, flag, value) ==
    [c EXCEPT !.F = IF value THEN Or8(@, flag) ELSE And8(@, Not8(flag))]

\* the four setFlag calls that end most ALU helpers
Flags4(c, z, n, h, cy) ==
    setFlag(setFlag(setFlag(setFlag(c, FLAG_Z, z), FLAG_N, n), FLAG_H, h), FLAG_C, cy)

\* register operand number reg of the opcode tables: B C D E H L (HL) A
Reg8(c, reg) ==
    CASE reg = 0 -> c.B [] reg = 1 -> c.C [] reg = 2 -> c.D [] reg = 3 -> c.E
      [] reg = 4 -> c.H [] reg = 5 -> c.L [] reg = 7 -> c.A

SetReg8(c, reg, v) ==
    CASE reg = 0 -> [c EXCEPT !.B = v] [] reg = 1 -> [c EXCEPT !.C = v]
      [] reg = 2 -> [c EXCEPT !.D = v] [] reg = 3 -> [c EXCEPT !.E = v]
      [] reg = 4 -> [c EXCEPT !.H = v] [] reg = 5 -> [c EXCEPT !.L = v]
      [] reg = 7 -> [c EXCEPT !.A = v]

Tick(w, n) == [w EXCEPT !.cpu.cycles = U32(@ + n)]

SetCpu(w, c) == [w EXCEPT !.cpu = c]

\* the result of a read: the machine after it and the value
read8(w, addr) == [w |-> Tick(w, 4), v |-> MMU_read(w.mmu, addr)]

write8(w, addr, value) ==
    [cpu |-> Tick(w, 4).cpu, mmu |-> MMU_write(w.mmu, addr, value)]

read16(w, addr) ==
    Bind(read8(w, addr), LAMBDA lo :
    Bind(read8(lo.w, U16(addr + 1)), LAMBDA hi :
        [w |-> hi.w, v |-> Word(hi.v, lo.v)]))

write16(w, addr, value) ==
    write8(write8(w, addr, Lo(value)), U16(addr + 1), Hi(value))

push16(w, value) ==
    write16([w EXCEPT !.cpu.SP = U16(@ + 65534)], U16(w.cpu.SP + 65534), value)

pop16(w) ==
    Bind(read16(w, w.cpu.SP), LAMBDA r :
        [w |-> [r.w EXCEPT !.cpu.SP = U16(@ + 2)], v |-> r.v])

\* read8(mmu, PC++)
fetch8(w) ==
    Bind(read8(w, w.cpu.PC), LAMBDA r :
        [w |-> [r.w EXCEPT !.cpu.PC = U16(@ + 1)], v |-> r.v])

\* u16 nn = read16(mmu, PC); PC += 2;
fetch16(w) ==
    Bind(read16(w, w.cpu.PC), LAMBDA r :
        [w |-> [r.w EXCEPT !.cpu.PC = U16(@ + 2)], v |-> r.v])

----------------------------------------------------------------------------
(* Interrupt handling and control instructions (cpu.cpp 113-175)           *)

RECURSIVE firstSet(_, _)
\* the for loop of handleInterrupts: the lowest i in 0..4 from i on with triggered bit i set
firstSet(triggered, i) ==
    IF i >= 5 THEN 5
    ELSE IF TEST_BIT(triggered, i) THEN i
    ELSE firstSet(triggered, i + 1)

\* handleInterrupts servicing the highest pending bit instead of the lowest
handleInterrupts_highest(w) ==
    IF ~w.cpu.ime THEN w
    ELSE
    Bind(MMU_read(w.mmu, 65295), LAMBDA IF_ :
    Bind(And8(And8(IF_, MMU_read(w.mmu, 65535)), 31), LAMBDA triggered :
        IF triggered = 0 THEN w
        ELSE
        Bind((CHOOSE k \in 0..4 : Bit(triggered, k) = 1
                                /\ \A j \in (k + 1)..4 : Bit(triggered, j) = 0), LAMBDA i :
        Bind(push16([w EXCEPT !.cpu.halted = FALSE, !.cpu.ime = FALSE,
                              !.mmu = MMU_write(@, 65295, ClearBit(IF_, i))],
                    w.cpu.PC), LAMBDA w3 :
            Tick([w3 EXCEPT !.cpu.PC = 64 + i * 8], 20)))))

handleInterrupts(w) ==
    IF ~w.cpu.ime THEN w
    ELSE
    Bind(MMU_read(w.mmu, 65295), LAMBDA IF_ :
    Bind(And8(And8(IF_, MMU_read(w.mmu, 65535)), 31), LAMBDA triggered :
        IF triggered = 0 THEN w
        ELSE
        Bind(firstSet(triggered, 0), LAMBDA i :
        Bind(push16([w EXCEPT !.cpu.halted = FALSE, !.cpu.ime = FALSE,
                              !.mmu = MMU_write(@, 65295, ClearBit(IF_, i))],
                    w.cpu.PC), LAMBDA w3 :
            Tick([w3 EXCEPT !.cpu.PC = 64 + i * 8], 20)))))

NOP(c) == c

HALT(c) == [c EXCEPT !.halted = TRUE]

STOP(c) == [c EXCEPT !.stopped = TRUE]

DI(c) == [c EXCEPT !.ime = FALSE]

\* EI enabling interrupts at once instead of scheduling the enable
EI_immediate(c) == [c EXCEPT !.ime = TRUE]

EI(c) == [c EXCEPT !.ime_scheduled = TRUE]

----------------------------------------------------------------------------
(* 8-bit and 16-bit arithmetic (cpu.cpp 205-317, 388-397).  An operator    *)
(* that the source applies to a u8& yields the record [c, v]: the CPU      *)
(* after the flag updates and the new value of the referenced byte.        *)

\* the tail of the A,r helpers: A = result, then Z from A and N as given
SetA_ZN(c, result, n) ==
    setFlag(setFlag([c EXCEPT !.A = result], FLAG_Z, result = 0), FLAG_N, n)

\* variant: half carry already at a nibble sum of 0x0F
ADD_A_r_half15(c, value) ==
    SetA_ZN(setFlag(setFlag(c, FLAG_H, (c.A % 16) + (value % 16) >= 15),
                    FLAG_C, c.A + value > 255),
            (c.A + value) % 256, FALSE)

ADD_A_r(c, value) ==
    SetA_ZN(setFlag(setFlag(c, FLAG_H, (c.A % 16) + (value % 16) > 15),
                    FLAG_C, c.A + value > 255),
            (c.A + value) % 256, FALSE)

ADC_A_r(c, value) ==
    Bind(IF getFlag(c, FLAG_C) THEN 1 ELSE 0, LAMBDA carry :
        SetA_ZN(setFlag(setFlag(c, FLAG_H, (c.A % 16) + (value % 16) + carry > 15),
                        FLAG_C, c.A + value + carry > 255),
                (c.A + value + carry) % 256, FALSE))

SUB_A_r(c, value) ==
    SetA_ZN(setFlag(setFlag(c, FLAG_H, (c.A % 16) < (value % 16)), FLAG_C, c.A < value),
            U8(c.A - value + 256), TRUE)

SBC_A_r(c, value) ==
    Bind(IF getFlag(c, FLAG_C) THEN 1 ELSE 0, LAMBDA carry :
        SetA_ZN(setFlag(setFlag(c, FLAG_H, (c.A % 16) < ((value % 16) + carry)),
                        FLAG_C, c.A < (value + carry)),
                U8(c.A - value - carry + 512), TRUE))

AND_A_r(c, value) ==
    Bind(And8(c.A, value), LAMBDA result :
        Flags4([c EXCEPT !.A = result], result = 0, FALSE, TRUE, FALSE))

OR_A_r(c, value) ==
    Bind(Or8(c.A, value), LAMBDA result :
        Flags4([c EXCEPT !.A = result], result = 0, FALSE, FALSE, FALSE))

XOR_A_r(c, value) ==
    Bind(Xor8(c.A, value), LAMBDA result :
        Flags4([c EXCEPT !.A = result], result = 0, FALSE, FALSE, FALSE))

CP_A_r(c, value) ==
    Flags4(c, c.A = value, TRUE, (c.A % 16) < (value % 16), c.A < value)

INC_r(c, reg) ==
    [c |-> setFlag(setFlag(setFlag(c, FLAG_H, reg % 16 = 15), FLAG_Z, U8(reg + 1) = 0),
                   FLAG_N, FALSE),
     v |-> U8(reg + 1)]

DEC_r(c, reg) ==
    [c |-> setFlag(setFlag(setFlag(c, FLAG_H, reg % 16 = 0), FLAG_Z, U8(reg + 255) = 0),
                   FLAG_N, TRUE),
     v |-> U8(reg + 255)]

\* yields the machine: the helper also charges 4 cycles
ADD_HL_rr(w, value) ==
    Bind(getHL(w.cpu), LAMBDA hl :
        Tick(SetCpu(w, setHL(setFlag(setFlag(setFlag(w.cpu, FLAG_N, FALSE),
                                             FLAG_H, (hl % 4096) + (value % 4096) > 4095),
                                     FLAG_C, hl + value > 65535),
                             (hl + value) % 65536)), 4))

----------------------------------------------------------------------------
(* Rotates and shifts (cpu.cpp 403-513, instructions.cpp 1063-1081)        *)

\* the tail of the rotates on A: A = v, Z N H cleared, C = carry
SetA_C(c, v, carry) == Flags4([c EXCEPT !.A = v], FALSE, FALSE, FALSE, carry)

\* the tail of the CB rotates and shifts: reg = v, Z from v, N H cleared, C = carry
Shifted(c, v, carry) == [c |-> Flags4(c, v = 0, FALSE, FALSE, carry), v |-> v]

RLCA(c) == SetA_C(c, U8(c.A * 2) + (IF c.A >= 128 THEN 1 ELSE 0), c.A >= 128)

RRCA(c) == SetA_C(c, (c.A \div 2) + (IF c.A % 2 = 1 THEN 128 ELSE 0), c.A % 2 = 1)

RLA(c) == SetA_C(c, U8(c.A * 2) + (IF getFlag(c, FLAG_C) THEN 1 ELSE 0), c.A >= 128)

RRA(c) == SetA_C(c, (c.A \div 2) + (IF getFlag(c, FLAG_C) THEN 128 ELSE 0), c.A % 2 = 1)

RLC_r(c, reg) == Shifted(c, U8(reg * 2) + (IF reg >= 128 THEN 1 ELSE 0), reg >= 128)

RRC_r(c, reg) == Shifted(c, (reg \div 2) + (IF reg % 2 = 1 THEN 128 ELSE 0), reg % 2 = 1)

RL_r(c, reg) ==
    Shifted(c, U8(reg * 2) + (IF getFlag(c, FLAG_C) THEN 1 ELSE 0), reg >= 128)

RR_r(c, reg) ==
    Shifted(c, (reg \div 2) + (IF getFlag(c, FLAG_C) THEN 128 ELSE 0), reg % 2 = 1)

SLA_r(c, reg) == Shifted(c, U8(reg * 2), reg >= 128)

\* bool msb = (reg & 0x80) is 1 when bit 7 is set, and it is that 1 which is or-ed in
SRA_r(c, reg) ==
    Shifted(c, Or8(reg \div 2, IF And8(reg, 128) # 0 THEN 1 ELSE 0), reg % 2 = 1)

SRL_r(c, reg) == Shifted(c, reg \div 2, reg % 2 = 1)

SWAP_r(c, reg) == Shifted(c, (reg % 16) * 16 + (reg \div 16), FALSE)

BIT_b_r(c, bit, reg) ==
    setFlag(setFlag(setFlag(c, FLAG_Z, ~TEST_BIT(reg, bit)), FLAG_N, FALSE), FLAG_H, TRUE)

SET_b_r(bit, reg) == SetBit(reg, bit)

RES_b_r(bit, reg) == ClearBit(reg, bit)

\* the tail of DAA: A adjusted by the correction, then Z, H and C
DAA_apply(c, add, correction, carry) ==
    Bind(IF add THEN U8(c.A + correction) ELSE U8(c.A - correction + 256), LAMBDA a :
        setFlag(setFlag(setFlag([c EXCEPT !.A = a], FLAG_Z, a = 0), FLAG_H, FALSE),
                FLAG_C, carry))

\* lowfix, highfix: whether 0x06 and 0x60 go into the correction
DAA_fix(c, add, lowfix, highfix) ==
    DAA_apply(c, add, (IF lowfix THEN 6 ELSE 0) + (IF highfix THEN 96 ELSE 0),
              IF add THEN highfix ELSE getFlag(c, FLAG_C))

\* variant: the low nibble is also tested after a subtraction
DAA_subNibble(c) ==
    IF ~getFlag(c, FLAG_N)
    THEN DAA_fix(c, TRUE, getFlag(c, FLAG_H) \/ (c.A % 16) > 9,
                 getFlag(c, FLAG_C) \/ c.A > 153)
    ELSE DAA_fix(c, FALSE, getFlag(c, FLAG_H) \/ (c.A % 16) > 9, getFlag(c, FLAG_C))

DAA(c) ==
    IF ~getFlag(c, FLAG_N)
    THEN DAA_fix(c, TRUE, getFlag(c, FLAG_H) \/ (c.A % 16) > 9,
                 getFlag(c, FLAG_C) \/ c.A > 153)
    ELSE DAA_fix(c, FALSE, getFlag(c, FLAG_H), getFlag(c, FLAG_C))

----------------------------------------------------------------------------
(* Jumps, calls and returns (cpu.cpp 323-382)                              *)

JP_cc_nn(w, condition, addr) ==
    IF condition THEN Tick([w EXCEPT !.cpu.PC = addr], 4) ELSE w

\* offset is the operand byte; PC += (i8) offset
JR_n(w, offset) == Tick([w EXCEPT !.cpu.PC = U16(@ + I8(offset) + 65536)], 4)

JR_cc_n(w, condition, offset) ==
    IF condition THEN Tick([w EXCEPT !.cpu.PC = U16(@ + I8(offset) + 65536)], 4) ELSE w

CALL_nn(w, addr) == [push16(w, w.cpu.PC) EXCEPT !.cpu.PC = addr]

CALL_cc_nn(w, condition, addr) ==
    IF condition THEN Tick([push16(w, w.cpu.PC) EXCEPT !.cpu.PC = addr], 12) ELSE w

RET(w) ==
    Bind(pop16(w), LAMBDA r : [r.w EXCEPT !.cpu.PC = r.v])

RET_cc(w, condition) ==
    IF condition THEN Bind(pop16(w), LAMBDA r : Tick([r.w EXCEPT !.cpu.PC = r.v], 12))
    ELSE w

\* RETI scheduling the enable like EI instead of setting IME
RETI_delayed(w) ==
    Bind(pop16(w), LAMBDA r : [r.w EXCEPT !.cpu.PC = r.v, !.cpu.ime_scheduled = TRUE])

RETI(w) ==
    Bind(pop16(w), LAMBDA r : [r.w EXCEPT !.cpu.PC = r.v, !.cpu.ime = TRUE])

RST(w, vector) == [push16(w, w.cpu.PC) EXCEPT !.cpu.PC = vector]

----------------------------------------------------------------------------
(* Opcode decode (instructions.cpp 16-1057)                                *)

\* register pair number k of the 0x00-0x3F columns: BC DE HL SP
getRR(c, k) ==
    CASE k = 0 -> getBC(c) [] k = 1 -> getDE(c) [] k = 2 -> getHL(c) [] k = 3 -> c.SP

setRR(c, k, v) ==
    CASE k = 0 -> setBC(c, v) [] k = 1 -> setDE(c, v) [] k = 2 -> setHL(c, v)
      [] k = 3 -> [c EXCEPT !.SP = v]

\* condition number k of the conditional jumps: NZ Z NC C
Cond(c, k) ==
    CASE k = 0 -> ~getFlag(c, FLAG_Z) [] k = 1 -> getFlag(c, FLAG_Z)
      [] k = 2 -> ~getFlag(c, FLAG_C) [] k = 3 -> getFlag(c, FLAG_C)

\* row k of the 0x80-0xBF block and of the immediate ALU opcodes
ALU(c, k, value) ==
    CASE k = 0 -> ADD_A_r(c, value) [] k = 1 -> ADC_A_r(c, value)
      [] k = 2 -> SUB_A_r(c, value) [] k = 3 -> SBC_A_r(c, value)
      [] k = 4 -> AND_A_r(c, value) [] k = 5 -> XOR_A_r(c, value)
      [] k = 6 -> OR_A_r(c, value)  [] k = 7 -> CP_A_r(c, value)

\* switch (operation) of the CB rotates and shifts
ROT(c, operation, v) ==
    CASE operation = 0 -> RLC_r(c, v) [] operation = 1 -> RRC_r(c, v)
      [] operation = 2 -> RL_r(c, v)  [] operation = 3 -> RR_r(c, v)
      [] operation = 4 -> SLA_r(c, v) [] operation = 5 -> SRA_r(c, v)
      [] operation = 6 -> SWAP_r(c, v) [] operation = 7 -> SRL_r(c, v)

executeCBOpcode(w, opcode) ==
    LET c   == w.cpu
        reg == opcode % 8
        bit == (opcode \div 8) % 8
    IN  IF opcode < 64 THEN
            IF reg = 6 THEN
                Bind(read8(w, getHL(c)), LAMBDA r :
                Bind(ROT(r.w.cpu, bit, r.v), LAMBDA res :
                    Tick(write8(SetCpu(r.w, res.c), getHL(c), res.v), 8)))
            ELSE
                Bind(ROT(c, bit, Reg8(c, reg)), LAMBDA res :
                    SetCpu(w, SetReg8(res.c, reg, res.v)))
        ELSE IF opcode <= 127 THEN
            IF reg = 6 THEN
                Bind(read8(w, getHL(c)), LAMBDA r :
                Bind(Tick(r.w, 4), LAMBDA w1 :
                    SetCpu(w1, BIT_b_r(w1.cpu, bit, r.v))))
            ELSE SetCpu(w, BIT_b_r(c, bit, Reg8(c, reg)))
        ELSE IF opcode <= 191 THEN
            IF reg = 6 THEN
                Bind(read8(w, getHL(c)), LAMBDA r :
                    Tick(write8(r.w, getHL(c), RES_b_r(bit, r.v)), 8))
            ELSE SetCpu(w, SetReg8(c, reg, RES_b_r(bit, Reg8(c, reg))))
        ELSE
            IF reg = 6 THEN
                Bind(read8(w, getHL(c)), LAMBDA r :
                    Tick(write8(r.w, getHL(c), SET_b_r(bit, r.v)), 8))
            ELSE SetCpu(w, SetReg8(c, reg, SET_b_r(bit, Reg8(c, reg))))

\* opcodes 0x00-0x3F
executeOpcode_00_3F(w, opcode) ==
    LET c   == w.cpu
        col == opcode % 16
        k   == opcode \div 16          \* register pair of the column
        r8  == opcode \div 8           \* register of INC r / DEC r / LD r,n
    IN  CASE opcode = 0 -> SetCpu(w, NOP(c))
          [] opcode = 8 ->
                Bind(fetch16(w), LAMBDA a : write16(a.w, a.v, c.SP))
          [] opcode = 16 -> [w EXCEPT !.cpu = [STOP(c) EXCEPT !.PC = U16(@ + 1)]]
          [] opcode = 24 ->
                Bind(fetch8(w), LAMBDA o : JR_n(o.w, o.v))
          [] opcode \in {32, 40, 48, 56} ->
                Bind(fetch8(w), LAMBDA o : JR_cc_n(o.w, Cond(c, (opcode - 32) \div 8), o.v))
          [] col = 1 ->
                Bind(fetch16(w), LAMBDA nn : SetCpu(nn.w, setRR(nn.w.cpu, k, nn.v)))
          [] opcode = 2  -> write8(w, getBC(c), c.A)
          [] opcode = 18 -> write8(w, getDE(c), c.A)
          [] opcode = 34 ->
                Bind(write8(w, getHL(c), c.A), LAMBDA w1 :
                    SetCpu(w1, setHL(w1.cpu, U16(getHL(c) + 1))))
          [] opcode = 50 ->
                Bind(write8(w, getHL(c), c.A), LAMBDA w1 :
                    SetCpu(w1, setHL(w1.cpu, U16(getHL(c) + 65535))))
          [] col = 3 -> Tick(SetCpu(w, setRR(c, k, U16(getRR(c, k) + 1))), 4)
          [] col = 11 -> Tick(SetCpu(w, setRR(c, k, U16(getRR(c, k) + 65535))), 4)
          [] opcode = 52 ->
                Bind(read8(w, getHL(c)), LAMBDA r :
                Bind(INC_r(r.w.cpu, r.v), LAMBDA res :
                    write8(SetCpu(r.w, res.c), getHL(c), res.v)))
          [] opcode = 53 ->
                Bind(read8(w, getHL(c)), LAMBDA r :
                Bind(DEC_r(r.w.cpu, r.v), LAMBDA res :
                    write8(SetCpu(r.w, res.c), getHL(c), res.v)))
          [] opcode = 54 ->
                Bind(fetch8(w), LAMBDA n : write8(n.w, getHL(c), n.v))
          [] col \in {4, 12} /\ opcode # 52 ->
                Bind(INC_r(c, Reg8(c, r8)), LAMBDA res : SetCpu(w, SetReg8(res.c, r8, res.v)))
          [] col \in {5, 13} /\ opcode # 53 ->
                Bind(DEC_r(c, Reg8(c, r8)), LAMBDA res : SetCpu(w, SetReg8(res.c, r8, res.v)))
          [] col \in {6, 14} /\ opcode # 54 ->
                Bind(fetch8(w), LAMBDA n : SetCpu(n.w, SetReg8(n.w.cpu, r8, n.v)))
          [] opcode = 7  -> SetCpu(w, RLCA(c))
          [] opcode = 15 -> SetCpu(w, RRCA(c))
          [] opcode = 23 -> SetCpu(w, RLA(c))
          [] opcode = 31 -> SetCpu(w, RRA(c))
          [] opcode = 39 -> SetCpu(w, DAA(c))
          [] opcode = 47 ->
                SetCpu(w, setFlag(setFlag([c EXCEPT !.A = Not8(c.A)], FLAG_N, TRUE),
                                  FLAG_H, TRUE))
          [] opcode = 55 ->
                SetCpu(w, setFlag(setFlag(setFlag(c, FLAG_N, FALSE), FLAG_H, FALSE),
                                  FLAG_C, TRUE))
          [] opcode = 63 ->
                SetCpu(w, setFlag(setFlag(setFlag(c, FLAG_N, FALSE), FLAG_H, FALSE),
                                  FLAG_C, ~getFlag(c, FLAG_C)))
          [] col = 9 -> ADD_HL_rr(w, getRR(c, k))
          [] opcode = 10 ->
                Bind(read8(w, getBC(c)), LAMBDA r : [r.w EXCEPT !.cpu.A = r.v])
          [] opcode = 26 ->
                Bind(read8(w, getDE(c)), LAMBDA r : [r.w EXCEPT !.cpu.A = r.v])
          [] opcode = 42 ->
                Bind(read8(w, getHL(c)), LAMBDA r :
                    SetCpu(r.w, setHL([r.w.cpu EXCEPT !.A = r.v], U16(getHL(r.w.cpu) + 1))))
          [] opcode = 58 ->
                Bind(read8(w, getHL(c)), LAMBDA r :
                    SetCpu(r.w, setHL([r.w.cpu EXCEPT !.A = r.v], U16(getHL(r.w.cpu) + 65535))))

\* opcodes 0x40-0x7F: LD r,r' / LD r,(HL) / LD (HL),r / HALT
executeOpcode_40_7F(w, opcode) ==
    LET c   == w.cpu
        dst == (opcode - 64) \div 8
        src == opcode % 8
    IN  IF opcode = 118 THEN SetCpu(w, HALT(c))
        ELSE IF dst = 6 THEN write8(w, getHL(c), Reg8(c, src))
        ELSE IF src = 6 THEN
            Bind(read8(w, getHL(c)), LAMBDA r : SetCpu(r.w, SetReg8(r.w.cpu, dst, r.v)))
        ELSE SetCpu(w, SetReg8(c, dst, Reg8(c, src)))

\* opcodes 0x80-0xBF: ALU A,r / ALU A,(HL)
executeOpcode_80_BF(w, opcode) ==
    LET c   == w.cpu
        k   == (opcode - 128) \div 8
        src == opcode % 8
    IN  IF src = 6 THEN
            Bind(read8(w, getHL(c)), LAMBDA r : SetCpu(r.w, ALU(r.w.cpu, k, r.v)))
        ELSE SetCpu(w, ALU(c, k, Reg8(c, src)))

\* opcodes 0xC0-0xFF
executeOpcode_C0_FF(w, opcode) ==
    LET c  == w.cpu
        cc == ((opcode - 192) \div 8) % 4    \* condition of RET cc / JP cc / CALL cc
    IN  CASE opcode \in {192, 200, 208, 216} -> RET_cc(w, Cond(c, cc))
          [] opcode = 193 -> Bind(pop16(w), LAMBDA r : SetCpu(r.w, setBC(r.w.cpu, r.v)))
          [] opcode = 209 -> Bind(pop16(w), LAMBDA r : SetCpu(r.w, setDE(r.w.cpu, r.v)))
          [] opcode = 225 -> Bind(pop16(w), LAMBDA r : SetCpu(r.w, setHL(r.w.cpu, r.v)))
          [] opcode = 241 -> Bind(pop16(w), LAMBDA r : SetCpu(r.w, setAF(r.w.cpu, r.v)))
          [] opcode \in {194, 202, 210, 218} ->
                Bind(fetch16(w), LAMBDA a : JP_cc_nn(a.w, Cond(c, cc), a.v))
          [] opcode = 195 ->
                Bind(read16(w, c.PC), LAMBDA a : Tick([a.w EXCEPT !.cpu.PC = a.v], 4))
          [] opcode \in {196, 204, 212, 220} ->
                Bind(fetch16(w), LAMBDA a : CALL_cc_nn(a.w, Cond(c, cc), a.v))
          [] opcode = 197 -> push16(w, getBC(c))
          [] opcode = 213 -> push16(w, getDE(c))
          [] opcode = 229 -> push16(w, getHL(c))
          [] opcode = 245 -> push16(w, getAF(c))
          [] opcode \in {198, 206, 214, 222, 230, 238, 246, 254} ->
                Bind(fetch8(w), LAMBDA n : SetCpu(n.w, ALU(n.w.cpu, (opcode - 198) \div 8, n.v)))
          [] opcode \in {199, 207, 215, 223, 231, 239, 247, 255} -> RST(w, opcode - 199)
          [] opcode = 201 -> Tick(RET(w), 4)
          [] opcode = 203 -> Bind(fetch8(w), LAMBDA cb : executeCBOpcode(cb.w, cb.v))
          [] opcode = 205 -> Bind(fetch16(w), LAMBDA a : CALL_nn(a.w, a.v))
          [] opcode = 217 -> RETI(w)
          [] opcode = 224 -> Bind(fetch8(w), LAMBDA o : write8(o.w, 65280 + o.v, c.A))
          [] opcode = 226 -> write8(w, 65280 + c.C, c.A)
          [] opcode = 232 ->
                Bind(fetch8(w), LAMBDA o :
                Bind(Flags4(o.w.cpu, FALSE, FALSE,
                            (c.SP % 16) + (o.v % 16) > 15,
                            (c.SP % 256) + o.v > 255), LAMBDA c1 :
                    Tick(SetCpu(o.w, [c1 EXCEPT !.SP = U16(c.SP + I8(o.v) + 65536)]), 8)))
          [] opcode = 233 -> [w EXCEPT !.cpu.PC = getHL(c)]
          [] opcode = 234 -> Bind(fetch16(w), LAMBDA a : write8(a.w, a.v, c.A))
          [] opcode = 240 ->
                Bind(fetch8(w), LAMBDA o :
                Bind(read8(o.w, 65280 + o.v), LAMBDA r :
                    [r.w EXCEPT !.cpu.A = r.v]))
          [] opcode = 242 ->
                Bind(read8(w, 65280 + c.C), LAMBDA r : [r.w EXCEPT !.cpu.A = r.v])
          [] opcode = 243 -> SetCpu(w, DI(c))
          [] opcode = 248 ->
                Bind(fetch8(w), LAMBDA o :
                Bind(Flags4(o.w.cpu, FALSE, FALSE,
                            (c.SP % 16) + (o.v % 16) > 15,
                            (c.SP % 256) + o.v > 255), LAMBDA c1 :
                    Tick(SetCpu(o.w, setHL(c1, U16(c.SP + I8(o.v) + 65536))), 4)))
          [] opcode = 249 -> Tick([w EXCEPT !.cpu.SP = getHL(c)], 4)
          [] opcode = 250 ->
                Bind(fetch16(w), LAMBDA a :
                Bind(read8(a.w, a.v), LAMBDA r :
                    [r.w EXCEPT !.cpu.A = r.v]))
          [] opcode = 251 -> SetCpu(w, EI(c))
          [] opcode \in {211, 219, 221, 227, 228, 235, 236, 237, 244, 252, 253} -> w

executeOpcode(w, opcode) ==
    IF opcode < 64 THEN executeOpcode_00_3F(w, opcode)
    ELSE IF opcode < 128 THEN executeOpcode_40_7F(w, opcode)
    ELSE IF opcode < 192 THEN executeOpcode_80_BF(w, opcode)
    ELSE executeOpcode_C0_FF(w, opcode)

----------------------------------------------------------------------------
(* CPU::step (cpu.cpp 36-65)                                               *)

\* lines 38-41: the enable scheduled by the previous EI
\* applyScheduledIME dropping the scheduled enable instead of applying it
applyScheduledIME_dropped(c) ==
    IF c.ime_scheduled THEN [c EXCEPT !.ime_scheduled = FALSE] ELSE c

applyScheduledIME(c) ==
    IF c.ime_scheduled THEN [c EXCEPT !.ime = TRUE, !.ime_scheduled = FALSE] ELSE c

\* the halted branch of CPU::step counting 2 cycles for the idle step
stepHalted_half(w) ==
    IF And8(And8(MMU_read(w.mmu, 65295), MMU_read(w.mmu, 65535)), 31) # 0
    THEN [Tick(w, 2) EXCEPT !.cpu.halted = FALSE]
    ELSE Tick(w, 2)

\* lines 44-55: the step of a halted CPU
\* the halted branch of CPU::step waking only when IME is set
stepHalted_needsIME(w) ==
    IF w.cpu.ime /\ And8(And8(MMU_read(w.mmu, 65295), MMU_read(w.mmu, 65535)), 31) # 0
    THEN [Tick(w, 4) EXCEPT !.cpu.halted = FALSE]
    ELSE Tick(w, 4)

stepHalted(w) ==
    IF And8(And8(MMU_read(w.mmu, 65295), MMU_read(w.mmu, 65535)), 31) # 0
    THEN [Tick(w, 4) EXCEPT !.cpu.halted = FALSE]
    ELSE Tick(w, 4)

\* lines 58-61: fetch and execute; the machine handed to handleInterrupts

stepExecute(w) ==
    Bind(fetch8(w), LAMBDA f : executeOpcode(f.w, f.v))

\* the step from the machine w0 in which the scheduled enable was applied
stepFrom(w0) ==
    IF w0.cpu.halted
    THEN [w |-> stepHalted(w0), ran |-> FALSE, x |-> w0]
    ELSE Bind(stepExecute(w0), LAMBDA x :
             [w |-> handleInterrupts(x), ran |-> TRUE, x |-> x])

\* CPU::step.  The result holds the machine on return (w) and, when an
\* instruction was executed (ran), the machine handed to handleInterrupts (x)
CPU_step(w) == stepFrom(SetCpu(w, applyScheduledIME(w.cpu)))

----------------------------------------------------------------------------
(* PPU mode machine (src/src/graphics/ppu.cpp 16-118).  The framebuffer is *)
(* write-only for the core; renderScanline is kept as the number of times  *)
(* it ran for each line (renders, sparse, 0 when absent) and as the sprite *)
(* rows that renderSprites went on to draw (sprites: <<line, sprite,       *)
(* sprite_line>> with sprite_line taken before the vertical flip).         *)

HBLANK == 0
VBLANK == 1
OAM    == 2
VRAM   == 3

PPU_new == [mode |-> OAM, mode_cycles |-> 0, scanline |-> 0, frame_ready |-> FALSE,
            renders |-> Empty, sprites |-> {}]

\* the machine of the PPU operators: the PPU object and the bus
setMode(pw, new_mode) ==
    [ppu |-> [pw.ppu EXCEPT !.mode = new_mode],
     mmu |-> MMU_write(pw.mmu, 65345, Or8(And8(MMU_read(pw.mmu, 65345), 252), new_mode))]

\* lines 203-204: int sprite_height = sprite_size_8x16 ? 16 : 8
sprite_height(m) == IF TEST_BIT(MMU_read(m, 65344), 2) THEN 16 ELSE 8

\* variant: the Y position kept as a signed int
y_pos_signed(m, i) == MMU_read(m, 65024 + (i * 4)) - 16

\* line 206: u8 y_pos = mmu.read(oam_addr) - 16
y_pos(m, i) == U8(MMU_read(m, 65024 + (i * 4)) + 240)

\* lines 211-214: the sprite is not skipped by `continue`
sprite_onLine(m, i, line) ==
    ~(line < y_pos(m, i) \/ line >= y_pos(m, i) + sprite_height(m))

\* PPU::renderSprites (lines 195-260): nothing with LCDC bit 1 clear, else a row
\* of each of the 40 sprites that is on the line
renderSprites(p, line, m) ==
    IF ~TEST_BIT(MMU_read(m, 65344), 1)
    THEN p
    ELSE [p EXCEPT !.sprites = @ \cup {<<line, i, line - y_pos(m, i)>> :
                                         i \in {j \in 0..39 : sprite_onLine(m, j, line)}}]

\* PPU::renderScanline (lines 120-123)
renderScanline(p, m) ==
    renderSprites([p EXCEPT !.renders = Put(@, p.scanline, Get(@, p.scanline, 0) + 1, 0)],
                  p.scanline, m)

\* lines 60-76: the LYC=LY coincidence flag of STAT and its interrupt
PPU_coincidence(pw, stat, hit) ==
    [pw EXCEPT !.mmu =
        MMU_write(IF hit /\ TEST_BIT(SetBit(stat, 2), 6)
                  THEN MMU_write(@, 65295, Or8(MMU_read(@, 65295), 2))
                  ELSE @,
                  65345, IF hit THEN SetBit(stat, 2) ELSE ClearBit(stat, 2))]

\* lines 78-89: scanline 144 enters V-blank, any other line starts with the OAM scan
PPU_lineMode(pw) ==
    IF pw.ppu.scanline = 144
    THEN Bind(setMode(pw, VBLANK), LAMBDA pw4 :
             [ppu |-> [pw4.ppu EXCEPT !.frame_ready = TRUE],
              mmu |-> MMU_write(pw4.mmu, 65295, Or8(MMU_read(pw4.mmu, 65295), 1))])
    ELSE setMode(pw, OAM)

\* lines 60-89, scanline and LY being those of the line entered
PPU_lineEntered(pw) ==
    PPU_lineMode(PPU_coincidence(pw, MMU_read(pw.mmu, 65345),
                                 pw.ppu.scanline = MMU_read(pw.mmu, 65349)))

\* the line step of H-blank taking 200 cycles off the counter instead of 204
PPU_nextLine_miscounted(pw) ==
    PPU_lineEntered([pw EXCEPT !.ppu.mode_cycles = @ - 200, !.ppu.scanline = @ + 1,
                               !.mmu = setLY(@, U8(pw.ppu.scanline + 1))])

\* the line step of H-blank leaving mode_cycles as it is
PPU_nextLine_unreduced(pw) ==
    PPU_lineEntered([pw EXCEPT !.ppu.scanline = @ + 1,
                               !.mmu = setLY(@, U8(pw.ppu.scanline + 1))])

\* case HBLANK of PPU::step once mode_cycles >= 204 (lines 54-89)
PPU_nextLine(pw) ==
    PPU_lineEntered([pw EXCEPT !.ppu.mode_cycles = @ - 204, !.ppu.scanline = @ + 1,
                               !.mmu = setLY(@, U8(pw.ppu.scanline + 1))])

\* the V-blank line step restarting the frame one line early (after line 152)
PPU_vblankLine_short(pw) ==
    Bind([pw EXCEPT !.ppu.mode_cycles = @ - 456, !.ppu.scanline = @ + 1,
                    !.mmu = setLY(@, U8(pw.ppu.scanline + 1))], LAMBDA pw1 :
        IF pw1.ppu.scanline = 153
        THEN setMode([pw1 EXCEPT !.ppu.scanline = 0, !.mmu = setLY(@, 0)], OAM)
        ELSE pw1)

\* case VBLANK of PPU::step once mode_cycles >= 456 (lines 95-105)
PPU_vblankLine(pw) ==
    Bind([pw EXCEPT !.ppu.mode_cycles = @ - 456, !.ppu.scanline = @ + 1,
                    !.mmu = setLY(@, U8(pw.ppu.scanline + 1))], LAMBDA pw1 :
        IF pw1.ppu.scanline = 154
        THEN setMode([pw1 EXCEPT !.ppu.scanline = 0, !.mmu = setLY(@, 0)], OAM)
        ELSE pw1)

\* the switch (mode) of PPU::step (lines 33-108), mode_cycles already advanced
PPU_modeStep(pw0) ==
    CASE pw0.ppu.mode = OAM ->
            IF pw0.ppu.mode_cycles >= 80
            THEN setMode([pw0 EXCEPT !.ppu.mode_cycles = @ - 80], VRAM)
            ELSE pw0
      [] pw0.ppu.mode = VRAM ->
            IF pw0.ppu.mode_cycles >= 172
            THEN setMode([pw0 EXCEPT !.ppu =
                             renderScanline([@ EXCEPT !.mode_cycles = @ - 172], pw0.mmu)],
                         HBLANK)
            ELSE pw0
      [] pw0.ppu.mode = HBLANK ->
            IF pw0.ppu.mode_cycles >= 204 THEN PPU_nextLine(pw0) ELSE pw0
      [] pw0.ppu.mode = VBLANK ->
            IF pw0.ppu.mode_cycles >= 456 THEN PPU_vblankLine(pw0) ELSE pw0


\* PPU::step whose LCD-off branch leaves the mode as it is
PPU_step_keepsMode(pw, cycles) ==
    IF ~TEST_BIT(MMU_read(pw.mmu, 65344), 7)
    THEN [pw EXCEPT !.ppu.scanline = 0, !.ppu.mode_cycles = 0]
    ELSE PPU_modeStep([pw EXCEPT !.ppu.mode_cycles = @ + cycles])

PPU_step(pw, cycles) ==
    IF ~TEST_BIT(MMU_read(pw.mmu, 65344), 7)
    THEN [pw EXCEPT !.ppu.scanline = 0, !.ppu.mode_cycles = 0, !.ppu.mode = OAM]
    ELSE PPU_modeStep([pw EXCEPT !.ppu.mode_cycles = @ + cycles])

----------------------------------------------------------------------------
(* Timer (src/unnamed/part_005)                                            *)

RECURSIVE Timer_divLoop(_)
\* while (div_counter >= 64) of Timer::step
Timer_divLoop(m) ==
    IF m.timer.div_counter >= 64
    THEN Timer_divLoop(MMU_write([m EXCEPT !.timer.div_counter = @ - 64], 65284,
                                 U8(MMU_read(m, 65284) + 1)))
    ELSE m

\* the body of the while loop of Timer::checkTIMA after the counter was reduced
Timer_tick(m, tima) ==
    IF tima = 255
    THEN Bind(MMU_write(m, 65285, MMU_read(m, 65286)), LAMBDA m3 :
             MMU_write(m3, 65295, Or8(MMU_read(m3, 65295), 4)))
    ELSE MMU_write(m, 65285, tima + 1)

RECURSIVE Timer_timaLoop(_, _)
\* while (tima_counter >= threshold) of Timer::checkTIMA
Timer_timaLoop(m, threshold) ==
    IF m.timer.tima_counter >= threshold
    THEN Timer_timaLoop(Timer_tick([m EXCEPT !.timer.tima_counter = @ - threshold],
                                   MMU_read(m, 65285)),
                        threshold)
    ELSE m

\* switch (tac & 0x03)
Timer_threshold(tac) ==
    CASE tac % 4 = 0 -> 256 [] tac % 4 = 1 -> 4
      [] tac % 4 = 2 -> 16  [] tac % 4 = 3 -> 64

checkTIMA(m, cycles) ==
    IF ~TEST_BIT(MMU_read(m, 65287), 2) THEN m
    ELSE Timer_timaLoop([m EXCEPT !.timer.tima_counter = @ + cycles],
                        Timer_threshold(MMU_read(m, 65287)))

Timer_step(m, cycles) ==
    checkTIMA(Timer_divLoop([m EXCEPT !.timer.div_counter = @ + cycles]), cycles)

----------------------------------------------------------------------------
(* APU (src/unnamed/part_004, src/src/audio/apu.h)                         *)

BUFFER_SIZE == 4096

\* APU::clockLength for one channel
clockLength(ch) ==
    IF (ch.nr_4 \div 64) % 2 = 1 /\ ch.length_counter > 0
    THEN [ch EXCEPT !.length_counter = @ - 1, !.enabled = @ /\ ch.length_counter # 1]
    ELSE ch

\* APU::clockEnvelope for one channel
clockEnvelope(ch) ==
    IF ch.enabled /\ ch.nr_2 % 8 # 0 /\ ch.envelope_timer > 0
    THEN IF ch.envelope_timer = 1
         THEN [ch EXCEPT !.envelope_timer = ch.nr_2 % 8,
                         !.volume = IF (ch.nr_2 \div 8) % 2 = 1
                                    THEN (IF @ < 15 THEN @ + 1 ELSE @)
                                    ELSE (IF @ > 0 THEN @ - 1 ELSE @)]
         ELSE [ch EXCEPT !.envelope_timer = @ - 1]
    ELSE ch

\* lines 85-108 of APU::step: the sequencer step that follows frame_sequencer++
APU_clock(a) ==
    [a EXCEPT !.ch1 = IF a.frame_sequencer = 7 THEN clockEnvelope(@)
                      ELSE IF a.frame_sequencer % 2 = 0 THEN clockLength(@) ELSE @,
              !.ch2 = IF a.frame_sequencer = 7 THEN clockEnvelope(@)
                      ELSE IF a.frame_sequencer % 2 = 0 THEN clockLength(@) ELSE @,
              !.length_clocks   = IF a.frame_sequencer % 2 = 0 THEN @ + 1 ELSE @,
              !.sweep_clocks    = IF a.frame_sequencer \in {2, 6} THEN @ + 1 ELSE @,
              !.envelope_clocks = IF a.frame_sequencer = 7 THEN @ + 1 ELSE @,
              !.frame_sequencer = IF @ >= 8 THEN 0 ELSE @]

\* APU::getSquareDuty: bit pos of the duty pattern
getSquareDuty(duty, pos) ==
    Bit(CASE duty = 0 -> 1 [] duty = 1 -> 129 [] duty = 2 -> 135 [] duty = 3 -> 126, pos)

\* `if (ch.enabled) updateSquareChannel(ch, cycles)`: c is the channel after the
\* timer reload
updateSquareChannel(ch, cycles) ==
    IF ch.enabled
    THEN Bind(IF ch.timer - cycles <= 0
              THEN [ch EXCEPT !.timer = @ - cycles
                                          + (2048 - (ch.nr_3 + (ch.nr_4 % 8) * 256)) * 4,
                              !.duty_pos = (@ + 1) % 8]
              ELSE [ch EXCEPT !.timer = @ - cycles],
              LAMBDA c :
                  [c EXCEPT !.output = IF getSquareDuty((c.nr_1 \div 64) % 4, c.duty_pos) = 1
                                       THEN c.volume ELSE 0])
    ELSE ch

\* the frame sequencer and the channel updates of APU::step (lines 78-118).  The
\* sample loop that ends APU::step (lines 120-126) is the emulation thread's side
\* of the sample ring: its calls of pushSample are the action PushSample of the
\* audio specification.
APU_step(a, cycles) ==
    [(IF a.frame_sequencer_cycles + cycles >= 2048
      THEN APU_clock([a EXCEPT !.frame_sequencer_cycles = @ + cycles - 2048,
                               !.frame_sequencer = @ + 1])
      ELSE [a EXCEPT !.frame_sequencer_cycles = @ + cycles])
     EXCEPT !.ch1 = updateSquareChannel(@, cycles),
            !.ch2 = updateSquareChannel(@, cycles)]

\* APU::pushSample that leaves the read cursor alone when the ring is full
pushSample_noDrop(a, sample) ==
    [a EXCEPT !.sample_buffer = Put(@, a.buffer_write_pos, sample, 0),
              !.buffer_write_pos = (@ + 1) % BUFFER_SIZE]

\* APU::pushSample, between SDL_LockMutex and SDL_UnlockMutex
pushSample(a, sample) ==
    Bind((a.buffer_write_pos + 1) % BUFFER_SIZE, LAMBDA wp :
        [a EXCEPT !.sample_buffer = Put(@, a.buffer_write_pos, sample, 0),
                  !.buffer_write_pos = wp,
                  !.buffer_read_pos = IF wp = @ THEN (@ + 1) % BUFFER_SIZE ELSE @])

\* APU::popSample, between SDL_LockMutex and SDL_UnlockMutex: the APU after the
\* call (a) and the sample returned (v)
popSample(a) ==
    IF a.buffer_read_pos # a.buffer_write_pos
    THEN [a |-> [a EXCEPT !.buffer_read_pos = (@ + 1) % BUFFER_SIZE],
          v |-> Get(a.sample_buffer, a.buffer_read_pos, 0)]
    ELSE [a |-> a, v |-> 0]

----------------------------------------------------------------------------
(* Frame loop of Emulator::runWithDisplay (src/unnamed/part_001 192-260)   *)

CYCLES_PER_FRAME == 70224

setButton(j, button, pressed) ==
    [j EXCEPT !.buttons = IF pressed THEN Or8(@, button) ELSE And8(@, Not8(button))]

\* the eight setButton calls made before a frame, `keys` being the set of held buttons
RECURSIVE setButtons(_, _, _)
setButtons(j, todo, keys) ==
    IF todo = {} THEN j
    ELSE LET b == CHOOSE x \in todo : TRUE
         IN  setButtons(setButton(j, b, b \in keys), todo \ {b}, keys)

HistLen == 3

Remember(h, x, n) == IF Len(h) < n THEN Append(h, x) ELSE Append(Tail(h), x)

NoMid == [ran |-> FALSE, ime |-> FALSE, IF_ |-> 0, IE_ |-> 0, PC |-> 0, SP |-> 0,
          cycles |-> 0]

MidOf(w) == [ran |-> TRUE, ime |-> w.cpu.ime, IF_ |-> MMU_read(w.mmu, 65295),
             IE_ |-> MMU_read(w.mmu, 65535), PC |-> w.cpu.PC, SP |-> w.cpu.SP,
             cycles |-> w.cpu.cycles]

\* quicksave.state does not exist
NoFile == [magic |-> "", version |-> 0]


\* SaveState (src/src/savestate.cpp) and the saveState / loadState of the
\* components.  A file is the record of what was written to it, field by
\* field; PPU, APU and Timer write and read nothing.
MAGIC == "GBSTATE"
VERSION == 1

CPU_saved ==
    {"A", "F", "B", "C", "D", "E", "H", "L", "SP", "PC",
     "halted", "stopped", "ime", "ime_scheduled", "cycles"}

CPU_saveState(c) == [f \in CPU_saved |-> c[f]]

CPU_loadState(c, s) == [f \in DOMAIN c |-> IF f \in CPU_saved THEN s[f] ELSE c[f]]

Cartridge_saved ==
    {"ram_size", "ram", "rom_bank", "ram_bank", "ram_enabled", "rom_banking",
     "rtc_seconds", "rtc_minutes", "rtc_hours", "rtc_days_low", "rtc_days_high",
     "rtc_latched", "rtc_latch_state"}

Cartridge_saveState(cart) == [f \in Cartridge_saved |-> cart[f]]

\* the RAM bytes are read when ram_size > 0 && ram_size <= ram.size(); the files
\* of the model were written by the same cartridge, so ram_size = ram.size()
Cartridge_loadState(cart, s) ==
    [f \in DOMAIN cart |->
        IF f = "ram" THEN (IF s.ram_size > 0 /\ s.ram_size <= cart.ram_size THEN s.ram ELSE cart.ram)
        ELSE IF f \in Cartridge_saved \ {"ram_size"} THEN s[f]
        ELSE cart[f]]

MMU_saved == {"wram", "vram", "hram", "oam", "io", "ie_register"}

MMU_saveState(m) ==
    [f \in MMU_saved \cup {"cartridge"} |->
        IF f = "cartridge" THEN Cartridge_saveState(m.cartridge) ELSE m[f]]

MMU_loadState(m, s) ==
    [f \in DOMAIN m |->
        IF f \in MMU_saved THEN s[f]
        ELSE IF f = "cartridge" THEN Cartridge_loadState(m.cartridge, s.cartridge)
        ELSE m[f]]

\* the file written by SaveState::save: header, cpu, mmu (ppu.saveState,
\* apu.saveState and timer.saveState are empty)
SaveState_save(c, m, p) ==
    [magic |-> MAGIC, version |-> VERSION, cpu |-> CPU_saveState(c), mmu |-> MMU_saveState(m)]

\* variant: the version byte is not compared
SaveState_load_anyVersion(file, c, m, p) ==
    IF file = NoFile \/ file.magic # MAGIC
    THEN [ok |-> FALSE, cpu |-> c, mmu |-> m, ppu |-> p]
    ELSE [ok |-> TRUE, cpu |-> CPU_loadState(c, file.cpu),
          mmu |-> MMU_loadState(m, file.mmu), ppu |-> p]

\* SaveState::load: the result and the components afterwards (ppu.loadState,
\* apu.loadState and timer.loadState are empty)
SaveState_load(file, c, m, p) ==
    IF file = NoFile THEN [ok |-> FALSE, cpu |-> c, mmu |-> m, ppu |-> p]
    ELSE IF file.magic # MAGIC THEN [ok |-> FALSE, cpu |-> c, mmu |-> m, ppu |-> p]
    ELSE IF file.version # VERSION THEN [ok |-> FALSE, cpu |-> c, mmu |-> m, ppu |-> p]
    ELSE [ok |-> TRUE, cpu |-> CPU_loadState(c, file.cpu),
          mmu |-> MMU_loadState(m, file.mmu), ppu |-> p]

\* no audio thread has run
NoAudio == [pushes |-> 0, pops |-> 0, next |-> 1, stream |-> <<>>]

\* history entry of one CPU::step: w is the machine on entry, w0 the machine once
\* the scheduled IME enable was applied; op is the opcode fetched (-1: halted step)
Entry(w, w0) ==
    [op   |-> IF w0.cpu.halted THEN -1 ELSE MMU_read(w0.mmu, w0.cpu.PC),
     pc   |-> w.cpu.PC,
     sp   |-> w.cpu.SP,
     ime0 |-> w.cpu.ime,
     ime1 |-> w0.cpu.ime,
     if0  |-> MMU_read(w.mmu, 65295),
     ie0  |-> MMU_read(w.mmu, 65535)]

\* u32 cycles_before = cpu.cycles; cpu.step(mmu); cycles_elapsed = cpu.cycles - cycles_before
CpuStep ==
    /\ loop_pc = "cpu"
    /\ cycles_this_frame < CYCLES_PER_FRAME
    /\ cpu.cycles < cycle_cap
    /\ \E r \in {CPU_step([cpu |-> cpu, mmu |-> mmu])} :
           /\ cpu' = r.w.cpu
           /\ mmu' = r.w.mmu
           /\ cycles_elapsed' = U32(r.w.cpu.cycles - cpu.cycles)
           /\ mid' = IF r.ran THEN MidOf(r.x) ELSE NoMid
           /\ hist' = Remember(hist, Entry([cpu |-> cpu, mmu |-> mmu],
                                           [cpu |-> applyScheduledIME(cpu), mmu |-> mmu]),
                               HistLen)
    /\ loop_pc' = "ppu"
    /\ UNCHANGED <<ppu, cycles_this_frame, vblanks, iterations, audio, calls, state_file, cycle_cap>>

\* ppu.step(cycles_elapsed, mmu)
PpuStep ==
    /\ loop_pc = "ppu"
    /\ \E pw \in {PPU_step([ppu |-> ppu, mmu |-> mmu], cycles_elapsed)} :
           /\ ppu' = pw.ppu
           /\ mmu' = pw.mmu
           /\ vblanks' = IF ppu.mode # VBLANK /\ pw.ppu.mode = VBLANK
                         THEN Remember(vblanks, [at |-> cpu.cycles,
                                                 over |-> pw.ppu.mode_cycles], 2)
                         ELSE vblanks
    /\ loop_pc' = "timer"
    /\ UNCHANGED <<cpu, cycles_elapsed, cycles_this_frame, mid, hist, iterations, audio,
                   calls, state_file, cycle_cap>>

\* mmu.getTimer().step(cycles_elapsed, mmu)
TimerStep ==
    /\ loop_pc = "timer"
    /\ mmu' = Timer_step(mmu, cycles_elapsed)
    /\ loop_pc' = "apu"
    /\ UNCHANGED <<cpu, ppu, cycles_elapsed, cycles_this_frame, mid, hist, vblanks,
                   iterations, audio, calls, state_file, cycle_cap>>

\* mmu.getAPU().step(cycles_elapsed); cycles_this_frame += cycles_elapsed
ApuStep ==
    /\ loop_pc = "apu"
    /\ mmu' = [mmu EXCEPT !.apu = APU_step(@, cycles_elapsed)]
    /\ cycles_this_frame' = U32(cycles_this_frame + cycles_elapsed)
    /\ iterations' = iterations + 1
    /\ loop_pc' = "cpu"
    /\ UNCHANGED <<cpu, ppu, cycles_elapsed, mid, hist, vblanks, audio, calls, state_file, cycle_cap>>

Buttons == {BTN_A, BTN_B, BTN_SELECT, BTN_START, BTN_RIGHT, BTN_LEFT, BTN_UP, BTN_DOWN}

KeySets == {{}, {BTN_A, BTN_UP}}

\* the inner loop has ended: the next pass of the outer loop polls the keys and
\* starts a frame with cycles_this_frame = 0
NewFrame ==
    /\ loop_pc = "cpu"
    /\ cycles_this_frame >= CYCLES_PER_FRAME
    /\ \E keys \in KeySets : mmu' = [mmu EXCEPT !.joypad = setButtons(@, Buttons, keys)]
    /\ cycles_this_frame' = 0
    /\ iterations' = 0
    /\ UNCHANGED <<cpu, ppu, loop_pc, cycles_elapsed, mid, hist, vblanks, audio, calls, state_file, cycle_cap>>

----------------------------------------------------------------------------
(* Specification of interrupt, HALT and STOP behaviour: short programs at  *)
(* the entry point 0x0100 of a ROM-only cartridge, run through the frame   *)
(* loop from the machine states a program can set up before jumping there. *)

\* ROM image holding `bytes` from 0x0100 on and 0x00 (NOP) everywhere else
Image(bytes) ==
    [a \in {255 + k : k \in {n \in 1..Len(bytes) : bytes[n] # 0}} |-> bytes[a - 255]]

MaxCycles == 40

\* opcodes the short programs are built from: NOP, EI, DI, HALT, RETI, INC A
ControlOps == {0, 251, 243, 118, 217, 60}

Programs ==
    {<<a, b>> : a \in ControlOps, b \in ControlOps} \cup
    { <<251, 0, 243>>,      \* EI; NOP; DI
      <<251, 118, 60>>,     \* EI; HALT; INC A
      <<118, 60, 60>>,      \* HALT; INC A; INC A
      <<16, 0, 60>>,        \* STOP; INC A
      <<16, 0, 118>>,       \* STOP; HALT
      <<224, 15>>,          \* LDH (0x0F),A
      <<62, 4, 224, 15>>,   \* LD A,4; LDH (0x0F),A
      <<240, 15, 224, 15>>, \* LDH A,(0x0F); LDH (0x0F),A
      <<175, 224, 15>>,     \* XOR A; LDH (0x0F),A
      <<62, 5, 224, 255>>,  \* LD A,5; LDH (0xFF),A
      <<197, 241>>,         \* PUSH BC; POP AF
      <<205, 0, 2>>,        \* CALL 0x0200
      <<49, 17, 255, 251>>  \* LD SP,0xFF11; EI
    }

\* SP on entry: the reset value, work RAM, just above IF (0xFF0F), just above ROM
StackTops == {65534, 53248, 65297, 32768}

\* IF on entry (bits 5-7 are set at construction and kept by every |= of the core)
PendingSets == {224, 225, 230}

\* IE on entry
EnableSets == {0, 1, 7}

\* TAC and TIMA on entry: timer off, or one or two ticks away from overflow at 262144 Hz
TimerSetups == {[tac |-> 0, tima |-> 0], [tac |-> 5, tima |-> 255], [tac |-> 5, tima |-> 254]}

Init ==
    \E prog \in Programs, i \in BOOLEAN, sp \in StackTops, f \in PendingSets,
       e \in EnableSets, t \in TimerSetups :
        /\ cpu = [reset EXCEPT !.ime = i, !.SP = sp]
        /\ mmu = SetIo(SetIo(SetIo([MMU_new(Image(prog)) EXCEPT !.ie_register = e],
                                   15, f), 7, t.tac), 5, t.tima)
        /\ ppu = PPU_new
        /\ loop_pc = "cpu"
        /\ cycles_elapsed = 0
        /\ cycles_this_frame = 0
        /\ mid = NoMid
        /\ hist = <<>>
        /\ vblanks = <<>>
        /\ iterations = 0
        /\ audio = NoAudio
        /\ calls = <<>>
        /\ state_file = NoFile
        /\ cycle_cap = MaxCycles

Next == CpuStep \/ PpuStep \/ TimerStep \/ ApuStep

Spec == Init /\ [][Next]_vars

TypeOK ==
    /\ cpu.F \in Byte /\ cpu.A \in Byte /\ cpu.PC \in 0..65535 /\ cpu.SP \in 0..65535
    /\ loop_pc \in {"cpu", "ppu", "timer", "apu"}
    /\ ppu.mode \in {HBLANK, VBLANK, OAM, VRAM}

----------------------------------------------------------------------------
(* Specification of single instructions: every opcode (and every CB        *)
(* sub-opcode) at 0x0100, over operand bytes, register, flag and memory    *)
(* values, run for one pass of the frame loop.                             *)

OpCycles == 1

\* first operand byte; the second one is 0xC0, so a 16-bit operand points to work RAM
OperandBytes == {0, 15, 128, 254}

RegValues == {0, 15, 128, 255}

\* F on entry: the low nibble is zero (setAF, setFlag and reset write nothing else)
FlagValues == {0, 80, 160, 240}

\* the two bytes on top of the stack (0xD000, 0xD001)
StackValues == {<<0, 0>>, <<255, 18>>, <<15, 192>>}

InitOp ==
    \E op \in 0..255, a \in RegValues, f \in FlagValues, v \in RegValues,
       st \in StackValues :
      \E b1 \in IF op = 203 THEN Byte ELSE OperandBytes :
        /\ cpu = [reset EXCEPT !.A = a, !.F = f, !.B = v, !.H = 192, !.L = 0, !.SP = 53248]
        /\ mmu = [MMU_new(Image(<<op, b1, 192>>)) EXCEPT
                     !.wram = Put(Put(Put(Empty, 0, v, 0), 4096, st[1], 0), 4097, st[2], 0)]
        /\ ppu = PPU_new
        /\ loop_pc = "cpu"
        /\ cycles_elapsed = 0
        /\ cycles_this_frame = 0
        /\ mid = NoMid
        /\ hist = <<>>
        /\ vblanks = <<>>
        /\ iterations = 0
        /\ audio = NoAudio
        /\ calls = <<>>
        /\ state_file = NoFile
        /\ cycle_cap = OpCycles

SpecOp == InitOp /\ [][Next]_vars

----------------------------------------------------------------------------
(* Specification of whole frames: instruction streams with different step  *)
(* lengths, run from power-on (LCD on) through the frame loop for two      *)
(* V-blank entries and the frame change in between.                        *)

FrameCycles == 136000

FramePrograms ==
    { <<>>,                                     \* NOP stream: 4-cycle steps
      <<0, 195, 0, 1>>,                         \* NOP; JP 0x0100: 4 + 16
      <<24, 254>>,                              \* JR -2: 12
      <<3, 197, 193, 195, 0, 1>>,               \* INC BC; PUSH BC; POP BC; JP 0x0100: 8+16+12+16
      <<62, 1, 224, 255, 251, 118, 195, 4, 1>>  \* LD A,1; LDH (0xFF),A; EI; HALT; JP 0x0104
    }

InitFrame ==
    \E prog \in FramePrograms :
        /\ cpu = reset
        /\ mmu = MMU_new(Image(prog))
        /\ ppu = PPU_new
        /\ loop_pc = "cpu"
        /\ cycles_elapsed = 0
        /\ cycles_this_frame = 0
        /\ mid = NoMid
        /\ hist = <<>>
        /\ vblanks = <<>>
        /\ iterations = 0
        /\ audio = NoAudio
        /\ calls = <<>>
        /\ state_file = NoFile
        /\ cycle_cap = FrameCycles

NextFrame == CpuStep \/ PpuStep \/ TimerStep \/ ApuStep \/ NewFrame

SpecFrame == InitFrame /\ [][NextFrame]_vars


----------------------------------------------------------------------------
(* Specification of LCD control: programs that wait, switch the LCD off    *)
(* and on again through LCDC (0xFF40) and write LY (0xFF44), run through   *)
(* the frame loop from power-on for two frames.                            *)

LcdCycles == 140000

\* LD BC,n; DEC BC; LD A,B; OR C; JR NZ,-5 (28 cycles a round); LD A,0x11;
\* LDH (0x40),A; LD A,0x91; LDH (0x40),A; XOR A; LDH (0x44),A; JP 0x0100
LcdToggle(n) ==
    <<1, n % 256, n \div 256, 11, 120, 177, 32, 251,
      62, 17, 224, 64, 62, 145, 224, 64, 175, 224, 68, 195, 0, 1>>

\* rounds waited before the LCD is switched off: the first switch falls into
\* OAM scan, pixel transfer, H-blank and V-blank (line 147) respectively
LcdDelays == {1, 5, 12, 2400}

LcdPrograms ==
    {LcdToggle(n) : n \in LcdDelays} \cup
    { <<175, 224, 68, 24, 252>>,        \* XOR A; LDH (0x44),A; JR -4
      <<62, 17, 224, 64, 24, 254>> }    \* LD A,0x11; LDH (0x40),A; JR -2: LCD stays off

InitLcd ==
    \E prog \in LcdPrograms :
        /\ cpu = reset
        /\ mmu = MMU_new(Image(prog))
        /\ ppu = PPU_new
        /\ loop_pc = "cpu"
        /\ cycles_elapsed = 0
        /\ cycles_this_frame = 0
        /\ mid = NoMid
        /\ hist = <<>>
        /\ vblanks = <<>>
        /\ iterations = 0
        /\ audio = NoAudio
        /\ calls = <<>>
        /\ state_file = NoFile
        /\ cycle_cap = LcdCycles

SpecLcd == InitLcd /\ [][NextFrame]_vars


----------------------------------------------------------------------------
(* Specification of the timer: instruction streams that leave the timer    *)
(* registers alone, entered at 0x0100 with TIMA = TMA and the timer        *)
(* running at 262144 Hz (TAC = 0x05) or stopped (TAC = 0x01).              *)

TimerCycles == 4200

TimerPrograms ==
    { <<>>,                 \* NOP stream: 4-cycle steps
      <<0, 195, 0, 1>>,     \* NOP; JP 0x0100: 4 + 16
      <<24, 254>>,          \* JR -2: 12
      <<118>> }             \* HALT: 4-cycle steps of the halted CPU (IE = 0)

\* TMA on entry: a full count, or six increments away from the overflow
TimerModulos == {0, 250}

InitTimer ==
    \E prog \in TimerPrograms, tma \in TimerModulos, tac \in {5, 1} :
        /\ cpu = reset
        /\ mmu = SetIo(SetIo(SetIo(SetIo(MMU_new(Image(prog)), 15, 224), 7, tac), 6, tma),
                       5, tma)
        /\ ppu = PPU_new
        /\ loop_pc = "cpu"
        /\ cycles_elapsed = 0
        /\ cycles_this_frame = 0
        /\ mid = NoMid
        /\ hist = <<>>
        /\ vblanks = <<>>
        /\ iterations = 0
        /\ audio = NoAudio
        /\ calls = <<>>
        /\ state_file = NoFile
        /\ cycle_cap = TimerCycles

SpecTimer == InitTimer /\ [][Next]_vars


----------------------------------------------------------------------------
(* Specification of one pass of the outer loop: the inner loop run from    *)
(* power-on until it is left, over instruction streams that keep the CPU   *)
(* running, halted for good, stopped, or taking interrupts.  The emulation *)
(* thread runs the loop body without waiting for anything, so the steps of *)
(* the inner loop are weakly fair.  They are the steps that change         *)
(* loop_pc, and one can be taken exactly when LoopRuns holds.              *)

LoopCycles == 70300

LoopPrograms ==
    { <<>>,                                      \* NOP stream: 4-cycle steps
      <<118>>,                                   \* HALT with IE = 0: never woken
      <<16, 0, 24, 254>>,                        \* STOP; JR -2
      <<205, 0, 192>>,                           \* CALL 0xC000: NOPs in work RAM, then ROM
      <<62, 1, 224, 255, 251, 118, 195, 4, 1>>,  \* LD A,1; LDH (0xFF),A; EI; HALT; JP 0x0104
      <<62, 5, 224, 7, 62, 4, 224, 255, 251, 24, 254>> }
                       \* LD A,5; LDH (7),A; LD A,4; LDH (0xFF),A; EI; JR -2: timer interrupts

InitLoop ==
    \E prog \in LoopPrograms :
        /\ cpu = reset
        /\ mmu = MMU_new(Image(prog))
        /\ ppu = PPU_new
        /\ loop_pc = "cpu"
        /\ cycles_elapsed = 0
        /\ cycles_this_frame = 0
        /\ mid = NoMid
        /\ hist = <<>>
        /\ vblanks = <<>>
        /\ iterations = 0
        /\ audio = NoAudio
        /\ calls = <<>>
        /\ state_file = NoFile
        /\ cycle_cap = LoopCycles

\* the thread is inside a pass of the inner loop, or the loop condition lets it
\* begin one (and the exploration bound is not reached)
LoopRuns ==
    loop_pc = "cpu" => (cycles_this_frame < CYCLES_PER_FRAME /\ cpu.cycles < cycle_cap)

\* the thread goes on to the next call of the loop body
LoopStep == LoopRuns /\ \E p \in {"cpu", "ppu", "timer", "apu"} \ {loop_pc} : loop_pc' = p

SpecLoop == InitLoop /\ [][NextFrame]_vars /\ WF_loop_pc(LoopStep)


----------------------------------------------------------------------------
(* Specification of the sample ring: the emulation thread calls pushSample *)
(* (from the sample loop of APU::step), the SDL audio thread calls         *)
(* popSample (from fillBuffer, once per output sample).  Both bodies run   *)
(* under buffer_mutex, so each call is one step, and the calls interleave  *)
(* freely.  Samples are numbered in push order (audio.next).               *)

MaxPushes == 6

MaxPops == 6

\* the ring after samples 1..fill were pushed and left unread, the oldest at `first`
Ring(first, fill) ==
    [APU_new EXCEPT
        !.sample_buffer = [i \in {(first + k) % BUFFER_SIZE : k \in 0..(fill - 1)} |->
                              ((i - first + BUFFER_SIZE) % BUFFER_SIZE) + 1],
        !.buffer_read_pos = first,
        !.buffer_write_pos = (first + fill) % BUFFER_SIZE]

\* rings on entry: empty, one sample, one short of full, full; at the start of
\* the array or about to wrap
RingStarts == {0, BUFFER_SIZE - 2}

RingFills == {0, 1, BUFFER_SIZE - 2, BUFFER_SIZE - 1}

InitAudio ==
    \E first \in RingStarts, fill \in RingFills :
        /\ cpu = reset
        /\ mmu = [MMU_new(Image(<<>>)) EXCEPT !.apu = Ring(first, fill)]
        /\ ppu = PPU_new
        /\ loop_pc = "cpu"
        /\ cycles_elapsed = 0
        /\ cycles_this_frame = 0
        /\ mid = NoMid
        /\ hist = <<>>
        /\ vblanks = <<>>
        /\ iterations = 0
        /\ audio = [NoAudio EXCEPT !.next = fill + 1]
        /\ calls = <<>>
        /\ state_file = NoFile
        /\ cycle_cap = 0

\* emulation thread: pushSample(sample)
PushSample ==
    /\ audio.pushes < MaxPushes
    /\ mmu' = [mmu EXCEPT !.apu = pushSample(@, audio.next)]
    /\ audio' = [audio EXCEPT !.pushes = @ + 1, !.next = @ + 1]
    /\ UNCHANGED <<cpu, ppu, loop_pc, cycles_elapsed, cycles_this_frame, mid, hist,
                   vblanks, iterations, calls, state_file, cycle_cap>>

\* audio thread: sample = popSample()
PopSample ==
    /\ audio.pops < MaxPops
    /\ \E r \in {popSample(mmu.apu)} :
           /\ mmu' = [mmu EXCEPT !.apu = r.a]
           /\ audio' = [audio EXCEPT !.pops = @ + 1, !.stream = Append(@, r.v)]
    /\ UNCHANGED <<cpu, ppu, loop_pc, cycles_elapsed, cycles_this_frame, mid, hist,
                   vblanks, iterations, calls, state_file, cycle_cap>>

NextAudio == PushSample \/ PopSample

SpecAudio == InitAudio /\ [][NextAudio]_vars


----------------------------------------------------------------------------
(* Specifications of single components: operations called on the bus one  *)
(* after the other, each recorded in `calls`.                              *)

\* the emulator after construction with bus m, nothing run yet
PowerOn(m) ==
    /\ cpu = reset
    /\ mmu = m
    /\ ppu = PPU_new
    /\ loop_pc = "cpu"
    /\ cycles_elapsed = 0
    /\ cycles_this_frame = 0
    /\ mid = NoMid
    /\ hist = <<>>
    /\ vblanks = <<>>
    /\ iterations = 0
    /\ audio = NoAudio
    /\ calls = <<>>
    /\ state_file = NoFile
    /\ cycle_cap = 0

\* mmu.write(addr, value) for one of the given addresses and values, while
\* fewer than n calls were made
BusWrite(addrs, values, n) ==
    /\ Len(calls) < n
    /\ \E addr \in addrs, value \in values :
           /\ mmu' = MMU_write(mmu, addr, value)
           /\ calls' = Append(calls, [op |-> "write", addr |-> addr, value |-> value])
    /\ UNCHANGED <<cpu, ppu, loop_pc, cycles_elapsed, cycles_this_frame, mid, hist,
                   vblanks, iterations, audio, state_file, cycle_cap>>

\* the last call made
LastCall == calls[Len(calls)]

----------------------------------------------------------------------------
(* Specification of the sound registers: writes to NR10-NR14, NR21-NR24,   *)
(* NR52 and wave RAM from power-on (NR52 = 0xF1).                          *)

MaxApuWrites == 3

\* NR10, NR11, NR12, NR14, NR21, NR24, NR52, wave RAM
ApuAddrs == {65296, 65297, 65298, 65300, 65302, 65305, 65318, 65328}

\* bit 7 (master enable, trigger) clear and set
ApuValues == {0, 63, 128, 247}

InitApu == PowerOn(MMU_new(Image(<<>>)))

ApuWrite == BusWrite(ApuAddrs, ApuValues, MaxApuWrites)

SpecApu == InitApu /\ [][ApuWrite]_vars


----------------------------------------------------------------------------
(* Specification of banked cartridges: control and RAM writes on the bus   *)
(* of a machine whose cartridge has an MBC1, MBC2 or MBC3 header.          *)

MaxCartWrites == 3

\* ROM sizes in banks of 16 KiB: 64 KiB and 2 MiB
RomBanks == {4, 128}

\* a ROM of `banks` banks whose first and last byte of every bank name the
\* bank, with cartridge type and RAM size code in the header
Rom(type, code, banks) ==
    Put(Put([a \in {k * 16384 : k \in 0..(banks - 1)} \cup {k * 16384 + 16383 : k \in 0..(banks - 1)} |->
                 IF a % 16384 = 0 THEN a \div 16384 + 1 ELSE 255 - a \div 16384],
            327, type, 0), 329, code, 0)

\* cartridge type, RAM size code, ROM banks
Carts ==
    {<<t, c, b>> : t \in MBC1_types, c \in {0}, b \in RomBanks} \cup
    {<<t, c, b>> : t \in MBC2_types, c \in {0, 1, 2}, b \in {4}} \cup
    {<<t, c, b>> : t \in MBC3_types, c \in {0, 2}, b \in {4}}

InitCart ==
    \E cart \in Carts :
        PowerOn(MMU_loadCartridge(MMU_new(Empty), Rom(cart[1], cart[2], cart[3]), cart[3] * 16384))

\* MBC1: ROM bank number, upper bits, mode select
Mbc1Write ==
    /\ mmu.cartridge.mbc_type \in MBC1_types
    /\ BusWrite({8448, 16383, 16384, 24576}, {0, 2, 32, 229}, MaxCartWrites)

\* MBC2: RAM enable, RAM at two addresses with the same low 9 bits, top of RAM
Mbc2Write ==
    /\ mmu.cartridge.mbc_type \in MBC2_types
    /\ BusWrite({0, 40960, 41472, 49151}, {10, 0, 92}, MaxCartWrites)

\* MBC3: RAM/RTC enable, bank or RTC register select, RAM/RTC
Mbc3Write ==
    /\ mmu.cartridge.mbc_type \in MBC3_types
    /\ BusWrite({0, 16384, 40960}, {10, 8, 12, 0, 92}, MaxCartWrites)

NextCart == Mbc1Write \/ Mbc2Write \/ Mbc3Write

SpecCart == InitCart /\ [][NextCart]_vars


----------------------------------------------------------------------------
(* Specification of the save state hotkeys: the main loop from its first   *)
(* pass on, F5 (save) and F8 (load) polled at the top of every pass, one   *)
(* frame of a program run between two passes.                              *)

StateCycles == 70300

\* 0x0100: CALL 0x0109; INC A; LD (0xC000),A; JR 0x0100;  0x0109: RET
StateProgram == <<205, 9, 1, 60, 234, 0, 192, 24, 247, 201>>

\* a state file written for the same ROM at another moment, with the header
\* bytes given
OtherFile(magic, version) ==
    [SaveState_save([reset EXCEPT !.A = 119, !.PC = 259], MMU_new(Image(StateProgram)), PPU_new)
        EXCEPT !.magic = magic, !.version = version]

\* quicksave.state when the emulator starts: absent, bad magic, bad versions
StateFiles == {NoFile, OtherFile("GBSTATS", VERSION), OtherFile(MAGIC, 2), OtherFile(MAGIC, 0)}

InitState ==
    \E file \in StateFiles :
        /\ cpu = reset
        /\ mmu = MMU_new(Image(StateProgram))
        /\ ppu = PPU_new
        /\ loop_pc = "keys"
        /\ cycles_elapsed = 0
        /\ cycles_this_frame = 0
        /\ mid = NoMid
        /\ hist = <<>>
        /\ vblanks = <<>>
        /\ iterations = 0
        /\ audio = NoAudio
        /\ calls = <<>>
        /\ state_file = file
        /\ cycle_cap = StateCycles

\* the static f5_was_pressed / f8_was_pressed of the pressed branch is set at
\* the first save / load and never cleared
Called(op) == \E i \in 1..Len(calls) : calls[i].op = op

\* a pass of the outer loop up to the inner loop: the keyboard is read
\* (recorded as a "handleEvents" call with the state of F5 and F8), F5 saves,
\* F8 loads, the joypad is polled (no button held), cycles_this_frame = 0
HotKeys ==
    /\ loop_pc = "keys" \/ (loop_pc = "cpu" /\ cycles_this_frame >= CYCLES_PER_FRAME)
    /\ \E f5 \in BOOLEAN, f8 \in BOOLEAN :
       \E file \in {IF f5 /\ ~Called("save") THEN SaveState_save(cpu, mmu, ppu) ELSE state_file} :
       \E r \in {IF f8 /\ ~Called("load") THEN SaveState_load(file, cpu, mmu, ppu)
                 ELSE [ok |-> FALSE, cpu |-> cpu, mmu |-> mmu, ppu |-> ppu]} :
           /\ state_file' = file
           /\ cpu' = r.cpu
           /\ mmu' = [r.mmu EXCEPT !.joypad = setButtons(@, Buttons, {})]
           /\ ppu' = r.ppu
           /\ calls' = calls
                  \o <<[op |-> "handleEvents", f5 |-> f5, f8 |-> f8]>>
                  \o (IF f5 /\ ~Called("save")
                      THEN <<[op |-> "save", ok |-> TRUE, cpu |-> cpu, mmu |-> mmu, ppu |-> ppu]>>
                      ELSE <<>>)
                  \o (IF f8 /\ ~Called("load")
                      THEN <<[op |-> "load", ok |-> r.ok, cpu |-> cpu, mmu |-> mmu, ppu |-> ppu]>>
                      ELSE <<>>)
    /\ loop_pc' = "cpu"
    /\ cycles_this_frame' = 0
    /\ iterations' = 0
    /\ UNCHANGED <<cycles_elapsed, mid, hist, vblanks, audio, cycle_cap>>

NextState == HotKeys \/ CpuStep \/ PpuStep \/ TimerStep \/ ApuStep

SpecState == InitState /\ [][NextState]_vars

\* two frames, so that the keyboard is read three times
KeysCycles == 140500

\* the emulator started without a quicksave.state
InitKeys ==
    /\ cpu = reset
    /\ mmu = MMU_new(Image(StateProgram))
    /\ ppu = PPU_new
    /\ loop_pc = "keys"
    /\ cycles_elapsed = 0
    /\ cycles_this_frame = 0
    /\ mid = NoMid
    /\ hist = <<>>
    /\ vblanks = <<>>
    /\ iterations = 0
    /\ audio = NoAudio
    /\ calls = <<>>
    /\ state_file = NoFile
    /\ cycle_cap = KeysCycles

SpecKeys == InitKeys /\ [][NextState]_vars


----------------------------------------------------------------------------
(* Specification of OAM DMA: a write of any byte to 0xFF46 on a bus whose  *)
(* memories were written before.                                           *)

MaxDmaWrites == 1

RECURSIVE Writes(_, _)
\* mmu.write(addr, value) for every <<addr, value>> of ws, in order
Writes(m, ws) ==
    IF ws = <<>> THEN m ELSE Writes(MMU_write(m, Head(ws)[1], Head(ws)[2]), Tail(ws))

\* writes made before: VRAM, work RAM (also through its echo), OAM, the joypad
\* select, a transfer from 0xC000, high RAM
DmaWrites ==
    << <<32768, 17>>, <<32927, 18>>, <<49152, 33>>, <<49153, 34>>, <<49311, 35>>,
       <<56832, 49>>, <<65024, 65>>, <<65025, 66>>, <<65183, 67>>, <<65280, 32>>,
       <<65350, 192>>, <<65408, 81>>, <<65439, 82>> >>

InitDma == PowerOn(Writes(MMU_loadCartridge(MMU_new(Empty), Rom(0, 0, 2), 32768), DmaWrites))

DmaWrite == BusWrite({65350}, Byte, MaxDmaWrites)

SpecDma == InitDma /\ [][DmaWrite]_vars


----------------------------------------------------------------------------
(* Specification of the plain regions of the bus and of the joypad         *)
(* register: the key poll of a pass of the main loop, then writes to work  *)
(* RAM, its echo, the unusable region and 0xFF00.                          *)

MaxBusCalls == 3

\* the eight setButton calls of a pass, for any set of held buttons, before the
\* bus traffic of the frame
PollKeys ==
    /\ calls = <<>>
    /\ \E keys \in SUBSET Buttons :
           /\ mmu' = [mmu EXCEPT !.joypad = setButtons(@, Buttons, keys)]
           /\ calls' = <<[op |-> "setButtons", addr |-> 0, value |-> keys]>>
    /\ UNCHANGED <<cpu, ppu, loop_pc, cycles_elapsed, cycles_this_frame, mid, hist,
                   vblanks, iterations, audio, state_file, cycle_cap>>

\* work RAM, echo RAM (first and last byte), unusable region
MemWrite == BusWrite({49152, 57344, 65023, 65184}, {90, 165}, MaxBusCalls)

\* joypad select: both groups, directions, actions, none
SelectWrite == BusWrite({65280}, {0, 32, 16, 48}, MaxBusCalls)

InitBus == PowerOn(MMU_new(Empty))

NextBus == PollKeys \/ MemWrite \/ SelectWrite

SpecBus == InitBus /\ [][NextBus]_vars


----------------------------------------------------------------------------
(* Specification of 8-bit arithmetic: ADD, SUB, INC and DEC in their       *)
(* register, (HL) and immediate forms at 0x0100, over all operand bytes,   *)
(* run for one CPU::step.                                                  *)

AluCycles == 1

\* ADD A,B / A,(HL) / A,A / A,d8 and SUB B / (HL) / A / d8
AddOps == {128, 134, 135, 198}
SubOps == {144, 150, 151, 214}

\* INC and DEC of B C D E H L (HL) A
IncOps == {4, 12, 20, 28, 36, 44, 52, 60}
DecOps == {5, 13, 21, 29, 37, 45, 53, 61}

\* A = a; the operand b in B, C, D, E, in the byte at 0xC000 and after the
\* opcode; HL = 0xC000 unless the opcode works on H or L, which then hold b
InitAlu ==
    \E op \in AddOps \cup SubOps \cup IncOps \cup DecOps, b \in Byte :
      \E a \in IF op \in AddOps \cup SubOps THEN Byte ELSE {b},
         f \in IF op \in AddOps \cup SubOps THEN {80} ELSE {0, 240} :
        /\ cpu = [reset EXCEPT !.A = a, !.F = f, !.B = b, !.C = b, !.D = b, !.E = b,
                               !.H = IF op \in {36, 37, 44, 45} THEN b ELSE 192,
                               !.L = IF op \in {36, 37, 44, 45} THEN b ELSE 0]
        /\ mmu = [MMU_new(Image(<<op, b>>)) EXCEPT !.wram = Put(Empty, 0, b, 0)]
        /\ ppu = PPU_new
        /\ loop_pc = "cpu"
        /\ cycles_elapsed = 0
        /\ cycles_this_frame = 0
        /\ mid = NoMid
        /\ hist = <<>>
        /\ vblanks = <<>>
        /\ iterations = 0
        /\ audio = NoAudio
        /\ calls = <<>>
        /\ state_file = NoFile
        /\ cycle_cap = AluCycles

SpecAlu == InitAlu /\ [][CpuStep]_vars


----------------------------------------------------------------------------
(* Specification of one-operand instructions: DAA and every CB-prefixed    *)
(* opcode at 0x0100, over all operand bytes, run for one CPU::step.        *)

ByteCycles == 1

OP_DAA == 39
OP_CB == 203

\* DAA with every Z N H C, the CB opcodes with all flags clear and all set
BytePrograms ==
    {<<<<OP_DAA>>, f * 16>> : f \in 0..15} \cup
    {<<<<OP_CB, x>>, f>> : x \in Byte, f \in {0, 240}}

\* the operand a in A, B, C, D, E and in the byte at 0xC000; HL = 0xC000 unless
\* the opcode works on H or L, which then hold a
InitByte ==
    \E p \in BytePrograms, a \in Byte :
        /\ cpu = [reset EXCEPT !.A = a, !.F = p[2], !.B = a, !.C = a, !.D = a, !.E = a,
                               !.H = IF Len(p[1]) = 2 /\ p[1][2] % 8 \in {4, 5} THEN a ELSE 192,
                               !.L = IF Len(p[1]) = 2 /\ p[1][2] % 8 \in {4, 5} THEN a ELSE 0]
        /\ mmu = [MMU_new(Image(p[1])) EXCEPT !.wram = Put(Empty, 0, a, 0)]
        /\ ppu = PPU_new
        /\ loop_pc = "cpu"
        /\ cycles_elapsed = 0
        /\ cycles_this_frame = 0
        /\ mid = NoMid
        /\ hist = <<>>
        /\ vblanks = <<>>
        /\ iterations = 0
        /\ audio = NoAudio
        /\ calls = <<>>
        /\ state_file = NoFile
        /\ cycle_cap = ByteCycles

SpecByte == InitByte /\ [][CpuStep]_vars


----------------------------------------------------------------------------
(* Specification of the sprite renderer: the PPU 4 cycles before the end   *)
(* of the pixel transfer of a visible line, sprites enabled, sprite 0 at   *)
(* every OAM Y byte, both sprite heights; the frame loop runs one pass.    *)

SpriteCycles == 1

\* LCDC with the LCD, background and sprites on, 8x8 or 8x16 sprites
SpriteLcdc == {147, 151}

InitSprite ==
    \E y \in Byte, lcdc \in SpriteLcdc, line \in 0..143 :
        /\ cpu = reset
        /\ \E pw \in {setMode([ppu |-> [PPU_new EXCEPT !.scanline = line, !.mode_cycles = 168],
                               mmu |-> setLY(MMU_write(MMU_write(MMU_write(
                                                 MMU_new(Image(<<0>>)), 65344, lcdc),
                                                 65024, y), 65025, 8), line)], VRAM)} :
               /\ ppu = pw.ppu
               /\ mmu = pw.mmu
        /\ loop_pc = "cpu"
        /\ cycles_elapsed = 0
        /\ cycles_this_frame = 0
        /\ mid = NoMid
        /\ hist = <<>>
        /\ vblanks = <<>>
        /\ iterations = 0
        /\ audio = NoAudio
        /\ calls = <<>>
        /\ state_file = NoFile
        /\ cycle_cap = SpriteCycles

SpecSprite == InitSprite /\ [][Next]_vars


----------------------------------------------------------------------------
(* Specification of the PPU under steps of every length: each opcode at    *)
(* 0x0100 (operands 0x06 0xC0), with and without a V-blank interrupt to    *)
(* dispatch, the PPU in any mode 4 or 40 cycles before the mode ends.      *)

ModeCycles == 40

\* a mode with the cycles it lasts and a line it is met on
ModeStarts ==
    {<<OAM, 80, 0>>, <<VRAM, 172, 0>>, <<HBLANK, 204, 10>>, <<HBLANK, 204, 143>>,
     <<VBLANK, 456, 153>>}

\* cycles left in the mode on entry
ModeLeft == {4, 40}

InitMode ==
    \E op \in Byte, i \in BOOLEAN, s \in ModeStarts, left \in ModeLeft :
        /\ cpu = [reset EXCEPT !.ime = i, !.SP = 53248, !.H = 192, !.L = 0]
        /\ \E pw \in {setMode([ppu |-> [PPU_new EXCEPT !.scanline = s[3],
                                                        !.mode_cycles = s[2] - left],
                               mmu |-> setLY(SetIo([MMU_new(Image(<<op, 6, 192>>))
                                                       EXCEPT !.ie_register = 1], 15, 225),
                                             s[3])], s[1])} :
               /\ ppu = pw.ppu
               /\ mmu = pw.mmu
        /\ loop_pc = "cpu"
        /\ cycles_elapsed = 0
        /\ cycles_this_frame = 0
        /\ mid = NoMid
        /\ hist = <<>>
        /\ vblanks = <<>>
        /\ iterations = 0
        /\ audio = NoAudio
        /\ calls = <<>>
        /\ state_file = NoFile
        /\ cycle_cap = ModeCycles

SpecMode == InitMode /\ [][Next]_vars


----------------------------------------------------------------------------
(* Specification of interrupt handlers: a short program at 0x0100 and a    *)
(* handler at the V-blank and timer vectors 0x0040 and 0x0050, entered     *)
(* with V-blank and/or timer pending.                                      *)

RetiCycles == 120

OP_RETI == 217

\* the ROM image with `bytes` from `base` on
Placed(image, bytes, base) ==
    [a \in (DOMAIN image) \cup {base + k - 1 : k \in {n \in 1..Len(bytes) : bytes[n] # 0}} |->
        IF a >= base /\ a < base + Len(bytes) THEN bytes[a - base + 1] ELSE image[a]]

\* NOP stream; INC A; EI; HALT; CALL 0x0104 (return address on the stack)
MainPrograms == {<<0>>, <<60, 60>>, <<251, 0, 0>>, <<118, 60>>, <<205, 4, 1, 0, 60, 201>>}

\* RETI; INC A, RETI; PUSH BC, POP BC, RETI; EI, RETI (nested dispatch);
\* POP BC, INC BC, PUSH BC, RETI (return address changed)
Handlers ==
    {<<OP_RETI>>, <<60, OP_RETI>>, <<197, 193, OP_RETI>>, <<251, OP_RETI>>,
     <<193, 3, 197, OP_RETI>>}

\* IF on entry: V-blank, timer, both
RetiPending == {225, 228, 229}

\* IE on entry
RetiEnabled == {1, 4, 5}

InitReti ==
    \E prog \in MainPrograms, h \in Handlers, i \in BOOLEAN, sp \in StackTops,
       f \in RetiPending, e \in RetiEnabled :
        /\ cpu = [reset EXCEPT !.ime = i, !.SP = sp]
        /\ mmu = SetIo([MMU_new(Placed(Placed(Image(prog), h, 64), h, 80))
                           EXCEPT !.ie_register = e], 15, f)
        /\ ppu = PPU_new
        /\ loop_pc = "cpu"
        /\ cycles_elapsed = 0
        /\ cycles_this_frame = 0
        /\ mid = NoMid
        /\ hist = <<>>
        /\ vblanks = <<>>
        /\ iterations = 0
        /\ audio = NoAudio
        /\ calls = <<>>
        /\ state_file = NoFile
        /\ cycle_cap = RetiCycles

SpecReti == InitReti /\ [][Next]_vars

----------------------------------------------------------------------------
(* Properties.  A CPU::step has just returned exactly in the states with   *)
(* loop_pc = "ppu"; there `mid` is the CPU between executeOpcode and       *)
(* handleInterrupts of that step (mid.ran: the step executed an opcode).   *)

AfterCpuStep == loop_pc = "ppu"

Pending(m) == And8(And8(m.IF_, m.IE_), 31)

\* index of the lowest set bit of a non-zero 5-bit value
LowestBit(p) == CHOOSE i \in 0..4 : Bit(p, i) = 1 /\ \A j \in 0..(i - 1) : Bit(p, j) = 0

\* VRAM, work RAM and its echo, OAM, HRAM: a byte written there reads back and
\* no register is affected
PlainRAM(a) == (a >= 32768 /\ a < 40960) \/ (a >= 49152 /\ a < 65184)
               \/ (a >= 65408 /\ a < 65535)

\* the dispatch described by C1, seen after the step
Dispatched(i) ==
    /\ MMU_read(mmu, 65295) = ClearBit(mid.IF_, i)
    /\ ~cpu.ime
    /\ cpu.SP = U16(mid.SP - 2 + 65536)
    /\ MMU_read(mmu, cpu.SP) = Lo(mid.PC)
    /\ MMU_read(mmu, U16(cpu.SP + 1)) = Hi(mid.PC)
    /\ cpu.PC = 64 + 8 * i

NotDispatched ==
    /\ MMU_read(mmu, 65295) = mid.IF_
    /\ cpu.SP = mid.SP
    /\ cpu.PC = mid.PC

\* C1 as stated: after an executed instruction, if IME is set and IF & IE & 0x1F
\* is non-zero, exactly the lowest set bit i is serviced (only bit i cleared in
\* IF, IME cleared, PC pushed with the low byte at the new SP and the high byte
\* above it, PC = 0x40 + 8i); otherwise IF, SP and PC are left alone.
C1_Original ==
    (AfterCpuStep /\ mid.ran) =>
        IF mid.ime /\ Pending(mid) # 0
        THEN Dispatched(LowestBit(Pending(mid)))
        ELSE NotDispatched

\* C1 (amended): the same, for a stack whose two pushed bytes lie in plain RAM
\* (VRAM, work RAM or echo, OAM, HRAM); for any stack, IME is cleared, SP drops
\* by 2 and PC becomes 0x40 + 8i.
C1_Dispatch ==
    (AfterCpuStep /\ mid.ran) =>
        IF mid.ime /\ Pending(mid) # 0
        THEN LET i == LowestBit(Pending(mid))
             IN  /\ ~cpu.ime /\ cpu.SP = U16(mid.SP - 2 + 65536) /\ cpu.PC = 64 + 8 * i
                 /\ (PlainRAM(cpu.SP) /\ PlainRAM(U16(cpu.SP + 1))) => Dispatched(i)
        ELSE NotDispatched

\* an interrupt that is not the only pending one was dispatched onto a RAM stack
C1_Witness ==
    /\ AfterCpuStep /\ mid.ran /\ mid.ime
    /\ Pending(mid) = 6
    /\ PlainRAM(cpu.SP) /\ PlainRAM(U16(cpu.SP + 1))
    /\ cpu.PC = 72
    /\ MMU_read(mmu, cpu.SP) = Lo(mid.PC)

----------------------------------------------------------------------------
(* EI / DI timing                                                          *)

OP_NOP  == 0
OP_STOP == 16
OP_HALT == 118
OP_DI   == 243
OP_EI   == 251

\* the k-th last CPU::step made so far (k = 1: the latest)
Back(k) == hist[Len(hist) - k + 1]

\* the k-th last step was an EI fetched with IME = false (none scheduled either),
\* IE = 1 and only V-blank pending
EiScenario(k) ==
    /\ AfterCpuStep /\ Len(hist) >= k
    /\ Back(k).op = OP_EI /\ ~Back(k).ime1
    /\ Back(k).ie0 = 1 /\ And8(Back(k).if0, 31) = 1

NoService == cpu.PC # 64 /\ Bit(MMU_read(mmu, 65295), 0) = 1

\* ... and that EI is followed in memory by NOP; DI
EiNopDi(k) ==
    /\ EiScenario(k)
    /\ MMU_read(mmu, U16(Back(k).pc + 1)) = OP_NOP
    /\ MMU_read(mmu, U16(Back(k).pc + 2)) = OP_DI

KeptIF(k) == And8(MMU_read(mmu, 65295), Back(k).if0) = Back(k).if0

----------------------------------------------------------------------------
(* HALT and STOP                                                           *)

PendingNow == And8(And8(MMU_read(mmu, 65295), MMU_read(mmu, 65535)), 31)

PendingAt(h) == And8(And8(h.if0, h.ie0), 31)

LastStep == hist'[Len(hist')]

\* C4: HALT executed with IME = 0 halts without servicing anything; a step of the
\* halted CPU with IME = 0 changes nothing but cycles (+4) and leaves the halted
\* state exactly when IF & IE & 0x1F is non-zero, with IF, the stack and PC
\* untouched; the step after the wake-up executes the instruction at the
\* unchanged PC, the one after HALT.
C4_HaltIme0 ==
    [][ /\ (CpuStep /\ LastStep.op = OP_HALT /\ ~LastStep.ime1) =>
               /\ cpu'.halted /\ ~cpu'.ime
               /\ cpu'.PC = U16(cpu.PC + 1) /\ cpu'.SP = cpu.SP
               /\ MMU_read(mmu', 65295) = MMU_read(mmu, 65295)
        /\ (CpuStep /\ cpu.halted /\ ~cpu.ime) =>
               /\ cpu' = [cpu EXCEPT !.cycles = U32(@ + 4), !.halted = (PendingNow = 0)]
               /\ mmu' = mmu
        /\ (CpuStep /\ ~cpu.halted /\ Len(hist) >= 1 /\ Back(1).op = -1) =>
               /\ LastStep.pc = Back(1).pc
               /\ LastStep.op = MMU_read(mmu, Back(1).pc)
      ]_vars

\* a CPU halted with IME = 0 waited one step with nothing pending, left the halted
\* state on the timer interrupt without servicing it, and ran the next instruction
C4_Witness ==
    /\ AfterCpuStep /\ Len(hist) = 3
    /\ Back(3).op = -1 /\ PendingAt(Back(3)) = 0 /\ ~Back(3).ime0
    /\ Back(2).op = -1 /\ PendingAt(Back(2)) # 0
    /\ Back(1).op = 60 /\ Back(1).pc = Back(2).pc
    /\ ~cpu.ime /\ cpu.SP = Back(3).sp /\ KeptIF(2)

\* the k-th last step was a step of a halted CPU that had IME set and saw an
\* enabled interrupt pending
HaltedWake(k) ==
    /\ AfterCpuStep /\ Len(hist) >= k
    /\ Back(k).op = -1 /\ Back(k).ime1 /\ PendingAt(Back(k)) # 0

\* C5 as stated: a halted CPU with IME set that sees IF & IE & 0x1F non-zero
\* services the interrupt as it leaves HALT: PC is the vector at the end of that
\* step with the address after HALT pushed, and the next instruction fetched is
\* the one at the vector.
C5_Original ==
    /\ HaltedWake(1) =>
           /\ cpu.PC = 64 + 8 * LowestBit(PendingAt(Back(1)))
           /\ cpu.SP = U16(Back(1).sp - 2 + 65536)
           /\ (PlainRAM(cpu.SP) /\ PlainRAM(U16(cpu.SP + 1))) =>
                  Word(MMU_read(mmu, U16(cpu.SP + 1)), MMU_read(mmu, cpu.SP)) = Back(1).pc
    /\ HaltedWake(2) => Back(1).pc = 64 + 8 * LowestBit(PendingAt(Back(2)))

\* C6 as stated: STOP consumes two bytes and then behaves as HALT: while
\* IF & IE & 0x1F is zero the following steps fetch nothing and leave PC alone.
C6_Original ==
    /\ (AfterCpuStep /\ Len(hist) >= 1 /\ Back(1).op = OP_STOP /\ ~Back(1).ime1) =>
           cpu.PC = U16(Back(1).pc + 2)
    /\ (AfterCpuStep /\ Len(hist) >= 2 /\ Back(2).op = OP_STOP /\ ~Back(2).ime1
        /\ PendingAt(Back(1)) = 0) =>
           (Back(1).op = -1 /\ cpu.PC = U16(Back(2).pc + 2))

----------------------------------------------------------------------------
(* Register and bus invariants                                             *)

\* C7: the low nibble of F is zero after reset and after every CPU::step, for
\* every opcode and operand, POP AF of arbitrary stack bytes included.
C7_FlagNibble == cpu.F % 16 = 0

\* POP AF has just loaded F from a stack byte whose low nibble was not zero
C7_Witness ==
    /\ AfterCpuStep /\ Len(hist) = 1 /\ Back(1).op = 241
    /\ MMU_read(mmu, Back(1).sp) % 16 # 0
    /\ cpu.F = And8(MMU_read(mmu, Back(1).sp), 240)
    /\ cpu.A = MMU_read(mmu, U16(Back(1).sp + 1))

\* C8 as stated: in every reachable state read(0xFF0F) has bits 5-7 all set,
\* whatever the program wrote to 0xFF0F and whatever was raised or dispatched.
C8_Original == And8(MMU_read(mmu, 65295), 224) = 224

----------------------------------------------------------------------------
(* PPU timing                                                              *)

LcdOn == TEST_BIT(MMU_read(mmu, 65344), 7)

\* cycles a mode runs before PPU::step leaves it
ModeLength(mode) ==
    CASE mode = OAM -> 80 [] mode = VRAM -> 172 [] mode = HBLANK -> 204 [] mode = VBLANK -> 456

\* line l has been rendered in the frame the PPU is in
Rendered(l) ==
    \/ ppu.mode = VBLANK
    \/ l < ppu.scanline
    \/ l = ppu.scanline /\ ppu.mode = HBLANK

RenderCount(p, l) == Get(p.renders, l, 0)

\* one ppu.step call with the LCD on, as C9 describes it
PpuStepAsClaimed ==
    LET total == ppu.mode_cycles + cycles_elapsed
        due   == total >= ModeLength(ppu.mode)
    IN  /\ ~due => ppu' = [ppu EXCEPT !.mode_cycles = total]
        /\ due =>
              /\ ppu'.mode_cycles = total - ModeLength(ppu.mode)
              /\ ppu.mode = OAM => (ppu'.mode = VRAM /\ ppu'.scanline = ppu.scanline)
              /\ ppu.mode = VRAM => (ppu'.mode = HBLANK /\ ppu'.scanline = ppu.scanline)
              /\ ppu.mode = HBLANK =>
                     /\ ppu'.scanline = ppu.scanline + 1
                     /\ ppu'.mode = IF ppu'.scanline = 144 THEN VBLANK ELSE OAM
              /\ ppu.mode = VBLANK =>
                     /\ ppu'.scanline = IF ppu.scanline = 153 THEN 0 ELSE ppu.scanline + 1
                     /\ ppu'.mode = IF ppu.scanline = 153 THEN OAM ELSE VBLANK
        /\ ppu.scanline \in 0..143 <=> ppu.mode # VBLANK
        /\ \A l \in 0..153 :
              RenderCount(ppu', l) =
                  RenderCount(ppu, l) +
                  (IF due /\ ppu.mode = VRAM /\ l = ppu.scanline /\ l <= 143 THEN 1 ELSE 0)

\* C9: with the LCD on the mode only moves OAM -> VRAM -> HBLANK -> OAM on visible
\* lines, HBLANK -> VBLANK exactly when the line becomes 144 and VBLANK -> OAM
\* exactly when line 153 wraps to 0, after 80, 172, 204 accumulated cycles and
\* 456 per V-blank line; the renderer runs once per visible line, at the end of
\* pixel transfer, and never for lines 144..153.
C9_ModeCycle ==
    [][ /\ (PpuStep /\ LcdOn) => PpuStepAsClaimed
        /\ ~PpuStep => ppu' = ppu
        /\ \A l \in 0..143 :
              RenderCount(ppu', l) - (IF Rendered(l)' THEN 1 ELSE 0)
                  = RenderCount(ppu', 0) - (IF Rendered(0)' THEN 1 ELSE 0)
      ]_vars

\* the first line of the second frame is in H-blank: every visible line was
\* rendered once in the first frame and line 0 once more
C9_Witness ==
    /\ LcdOn /\ ppu.mode = HBLANK /\ ppu.scanline = 0
    /\ RenderCount(ppu, 0) = 2
    /\ \A l \in 1..143 : RenderCount(ppu, l) = 1
    /\ \A l \in 144..153 : RenderCount(ppu, l) = 0

\* C10 as stated: with the LCD kept on, exactly 70224 CPU T-cycles elapse between
\* two consecutive V-blank entries, for every instruction stream.
C10_Original ==
    Len(vblanks) = 2 => vblanks[2].at - vblanks[1].at = CYCLES_PER_FRAME

\* C10 (amended): a V-blank entry is seen at the end of the CPU step that crosses
\* into line 144, mode_cycles holding the cycles run past the line's end; the
\* CPU cycle counts of two consecutive entries, each less its overrun, differ by
\* exactly 70224 (so the counts themselves do when the overruns are equal).
C10_FramePeriod ==
    Len(vblanks) = 2 =>
        /\ (vblanks[2].at - vblanks[2].over) - (vblanks[1].at - vblanks[1].over)
               = CYCLES_PER_FRAME
        /\ vblanks[1].over \in 0..79 /\ vblanks[2].over \in 0..79

\* two V-blank entries were seen with different overruns
C10_Witness ==
    /\ Len(vblanks) = 2 /\ LcdOn
    /\ vblanks[1].over # vblanks[2].over
    /\ vblanks[2].at - vblanks[1].at # CYCLES_PER_FRAME


\* C11: the PPU scanline and LY (0xFF44) are in 0..153 in every state, and in
\* V-blank mode the scanline is in 144..153; also after the LCD was switched
\* off or on and after the CPU wrote to 0xFF44.
C11_LineRange ==
    /\ ppu.scanline \in 0..153
    /\ MMU_read(mmu, 65348) \in 0..153
    /\ (ppu.mode = VBLANK => ppu.scanline \in 144..153)

\* the LCD was switched off during V-blank: the PPU went back to line 0 while
\* LY still shows the V-blank line
C11_Witness ==
    /\ ~LcdOn /\ loop_pc = "timer"
    /\ ppu.scanline = 0 /\ ppu.mode = OAM
    /\ MMU_read(mmu, 65348) \in 144..153


\* C12 as stated: every PPU step (LCD on) that changes the scanline, to any line
\* 0..153, leaves STAT bit 2 set iff the new line equals LYC (0xFF45), and IF
\* bit 1 set if they are equal and STAT bit 6 is set.
C12_Original ==
    [][(PpuStep /\ LcdOn /\ ppu'.scanline # ppu.scanline) =>
          /\ TEST_BIT(MMU_read(mmu', 65345), 2) <=> (ppu'.scanline = MMU_read(mmu', 65349))
          /\ (ppu'.scanline = MMU_read(mmu', 65349) /\ TEST_BIT(MMU_read(mmu', 65345), 6))
                 => TEST_BIT(MMU_read(mmu', 65295), 1)]_vars


\* C13 as stated: after every PPU step that changes the PPU mode, STAT (0xFF41)
\* bits 1-0 equal the new mode, the reset to OAM scan with the LCD off included.
C13_Original ==
    [][(PpuStep /\ ppu'.mode # ppu.mode) => MMU_read(mmu', 65345) % 4 = ppu'.mode]_vars


\* C14 as stated: between two passes of the frame loop, with no program write to
\* 0xFF04, DIV (0xFF04) has gone up by one modulo 256 for every 256 T-cycles the
\* CPU has run since power-on.
C14_Original ==
    loop_pc = "cpu" => MMU_read(mmu, 65284) = (cpu.cycles \div 256) % 256


\* C15 as stated: with TAC = 0x05, once the frame loop has run the CPU for 16*N
\* T-cycles TIMA has been incremented exactly N times from its entry value TMA,
\* an increment from 0xFF reloading TMA and setting IF bit 2; with TAC bit 2
\* clear TIMA keeps its entry value.
C15_Original ==
    (loop_pc = "cpu" /\ cpu.cycles % 16 = 0) =>
        IF TEST_BIT(MMU_read(mmu, 65287), 2)
        THEN /\ MMU_read(mmu, 65285) =
                    MMU_read(mmu, 65286)
                      + ((cpu.cycles \div 16) % (256 - MMU_read(mmu, 65286)))
             /\ TEST_BIT(MMU_read(mmu, 65295), 2)
                    <=> (cpu.cycles \div 16 >= 256 - MMU_read(mmu, 65286))
        ELSE MMU_read(mmu, 65285) = MMU_read(mmu, 65286)


\* C16 as stated: a step that services an interrupt advances cpu.cycles by
\* exactly 20 beyond the cycles of the instruction it executed.
C16_Original ==
    (AfterCpuStep /\ mid.ran /\ mid.ime /\ Pending(mid) # 0) =>
        cpu.cycles - mid.cycles = 20


\* the conditional control-flow opcodes: JR cc,e; JP cc,nn; CALL cc,nn; RET cc
JR_cc == {32, 40, 48, 56}

JP_cc == {194, 202, 210, 218}

CALL_cc == {196, 204, 212, 220}

RET_cc_ops == {192, 200, 208, 216}

\* the flag an opcode tests, and whether it jumps with flags f
CondFlag(op) == IF op \in {32, 40, 194, 202, 196, 204, 192, 200} THEN FLAG_Z ELSE FLAG_C

CondTaken(op, f) ==
    IF op \in {32, 48, 194, 210, 196, 212, 192, 208}
    THEN And8(f, CondFlag(op)) = 0
    ELSE And8(f, CondFlag(op)) # 0

\* T-cycles of one CPU::step from CPU c and bus m
StepCycles(c, m) == CPU_step([cpu |-> c, mmu |-> m]).w.cpu.cycles - c.cycles

\* what C17 says of a step that executes opcode op with its condition true
TakenAsClaimed(op) ==
    /\ (cpu'.cycles - cpu.cycles)
         - StepCycles([cpu EXCEPT !.F = Xor8(@, CondFlag(op))], mmu)
           = IF op \in JR_cc \cup JP_cc THEN 4 ELSE 12
    /\ (op = 32 /\ MMU_read(mmu, U16(cpu.PC + 1)) = 254) =>
           /\ cpu'.cycles - cpu.cycles = 12 /\ cpu'.PC = cpu.PC
           /\ StepCycles([cpu EXCEPT !.F = Xor8(@, FLAG_Z)], mmu) = 8

\* C17 as stated: a step whose conditional jump, call or return is taken uses 4
\* (JR cc, JP cc) or 12 (CALL cc, RET cc) T-cycles more than the same step with
\* the condition false; JR NZ,-2 takes 12 with Z=0, PC back on the JR, and 8
\* with Z=1.
C17_Original ==
    [][(CpuStep /\ ~cpu.halted /\ ~cpu.ime
         /\ MMU_read(mmu, cpu.PC) \in JR_cc \cup JP_cc \cup CALL_cc \cup RET_cc_ops
         /\ CondTaken(MMU_read(mmu, cpu.PC), cpu.F))
        => TakenAsClaimed(MMU_read(mmu, cpu.PC))]_vars


\* the order of the calls in the body of the inner loop
LoopOrder == {<<"cpu", "ppu">>, <<"ppu", "timer">>, <<"timer", "apu">>, <<"apu", "cpu">>}

\* C18: a pass of the inner loop is begun only below 70224 accumulated cycles;
\* its CPU::step adds at least 4 to cpu.cycles; that step's delta is what
\* PPU::step, Timer::step and APU::step get, in this order, and what is added
\* to the accumulated count; no frame takes more than 17556 passes; and the
\* inner loop is left (the accumulated count reaches 70224).
C18_FrameLoop ==
    /\ [][CpuStep => /\ cycles_this_frame < CYCLES_PER_FRAME
                     /\ cycles_elapsed' = cpu'.cycles - cpu.cycles
                     /\ cycles_elapsed' >= 4]_vars
    /\ [][loop_pc' # loop_pc => <<loop_pc, loop_pc'>> \in LoopOrder]_vars
    /\ [][PpuStep \/ TimerStep \/ ApuStep => cycles_elapsed' = cycles_elapsed]_vars
    /\ [][ApuStep => /\ cycles_this_frame' = cycles_this_frame + cycles_elapsed
                     /\ cycles_this_frame < CYCLES_PER_FRAME]_vars
    /\ [](iterations <= CYCLES_PER_FRAME \div 4)
    /\ <>(loop_pc = "cpu" /\ cycles_this_frame >= CYCLES_PER_FRAME)

\* the inner loop was left after exactly 17556 passes
C18_Witness ==
    /\ loop_pc = "cpu" /\ cycles_this_frame >= CYCLES_PER_FRAME
    /\ iterations = CYCLES_PER_FRAME \div 4


\* samples buffered in ring a
Buffered(a) == (a.buffer_write_pos - a.buffer_read_pos + BUFFER_SIZE) % BUFFER_SIZE

\* the samples the callback got, underflow zeros left out
Played == SelectSeq(audio.stream, LAMBDA v : v # 0)

\* C19: under every interleaving of pushSample and popSample calls, the samples
\* popSample returned (zeros of an empty ring aside) are pushed samples, in push
\* order, none twice; a pop from a non-empty ring returns the oldest unread sample
\* and advances the read cursor only; a pop from an empty ring returns 0 and moves
\* no cursor; a push onto a full ring advances the read cursor by one (dropping
\* the oldest unread sample), any other push leaves it alone; both cursors stay
\* in 0..4095 and at most 4095 samples are buffered.
C19_Ring ==
    /\ [](/\ mmu.apu.buffer_read_pos \in 0..(BUFFER_SIZE - 1)
          /\ mmu.apu.buffer_write_pos \in 0..(BUFFER_SIZE - 1)
          /\ Buffered(mmu.apu) <= BUFFER_SIZE - 1
          /\ \A i \in 1..Len(Played) :
                /\ Played[i] \in 1..(audio.next - 1)
                /\ i > 1 => Played[i - 1] < Played[i])
    /\ [][PopSample =>
            IF Buffered(mmu.apu) = 0
            THEN /\ audio'.stream = Append(audio.stream, 0)
                 /\ mmu'.apu.buffer_read_pos = mmu.apu.buffer_read_pos
                 /\ mmu'.apu.buffer_write_pos = mmu.apu.buffer_write_pos
            ELSE /\ audio'.stream = Append(audio.stream, audio.next - Buffered(mmu.apu))
                 /\ mmu'.apu.buffer_read_pos = (mmu.apu.buffer_read_pos + 1) % BUFFER_SIZE
                 /\ mmu'.apu.buffer_write_pos = mmu.apu.buffer_write_pos]_vars
    /\ [][PushSample =>
            /\ mmu'.apu.buffer_write_pos = (mmu.apu.buffer_write_pos + 1) % BUFFER_SIZE
            /\ IF Buffered(mmu.apu) = BUFFER_SIZE - 1
               THEN /\ mmu'.apu.buffer_read_pos = (mmu.apu.buffer_read_pos + 1) % BUFFER_SIZE
                    /\ Buffered(mmu'.apu) = BUFFER_SIZE - 1
               ELSE /\ mmu'.apu.buffer_read_pos = mmu.apu.buffer_read_pos
                    /\ Buffered(mmu'.apu) = Buffered(mmu.apu) + 1]_vars

\* pushes onto the full ring dropped samples 1 and 2 and wrapped the write
\* cursor; the callback, between them, got sample 2 and then sample 4
C19_Witness ==
    /\ audio.pushes = 3 /\ audio.stream = <<2, 4>>
    /\ Buffered(mmu.apu) = BUFFER_SIZE - 2
    /\ mmu.apu.buffer_write_pos < mmu.apu.buffer_read_pos


\* C20 as stated: the APU frame sequencer goes one step further for every 8192
\* T-cycles of CPU time the frame loop has forwarded, through 8 steps.
C20_Original ==
    loop_pc = "cpu" => mmu.apu.frame_sequencer = (cpu.cycles \div 8192) % 8


\* what C21 calls the APU state: the byte APU::read returns for each register
\* and the fields of the two channels
ApuState(a) == <<[r \in 65296..65343 |-> APU_read(a, r)], a.ch1, a.ch2>>

\* C21 as stated: while NR52 bit 7 is 0, a write to an APU register other than
\* NR52 changes neither a byte returned by APU::read nor a channel field.
C21_Original ==
    [][(calls' # calls /\ APU_read(mmu.apu, 65318) < 128 /\ LastCall'.addr # 65318)
          => ApuState(mmu'.apu) = ApuState(mmu.apu)]_vars


\* the values written to the ROM bank register 0x2000-0x3FFF, oldest first
BankWrites == SelectSeq(calls, LAMBDA c : c.addr >= 8192 /\ c.addr < 16384)

\* the byte of the ROM file at `offset`
RomByte(offset) == Get(mmu.cartridge.rom, offset, 0)

RamWritten == calls # <<>> /\ LastCall.addr >= 40960 /\ LastCall.addr < 49152

\* C23 as stated: on an MBC2 cartridge with RAM enabled, after a write of v to
\* an address in 0xA000-0xBFFF every address of that range with the same low
\* 9 bits reads v & 0x0F, whatever the RAM size code of the header
C23_Original ==
    (mmu.cartridge.mbc_type \in MBC2_types /\ mmu.cartridge.ram_enabled /\ RamWritten) =>
        \A a \in {40960, 41472, 49151} :
            a % 512 = LastCall.addr % 512 => MMU_read(mmu, a) = LastCall.value % 16


\* C24 as stated: on every MBC3 cartridge type with RAM/RTC enabled and the
\* bank register in 0x08-0x0C, a write of v to 0xA000-0xBFFF stores v in the
\* selected RTC register, leaves cartridge RAM alone, and a following read of
\* 0xA000-0xBFFF returns v
C24_Original ==
    [][(/\ calls' # calls
        /\ mmu.cartridge.mbc_type \in MBC3_types
        /\ mmu.cartridge.ram_enabled
        /\ mmu.cartridge.ram_bank \in 8..12
        /\ LastCall'.addr >= 40960 /\ LastCall'.addr < 49152)
          => /\ Cartridge_rtc(mmu'.cartridge) = LastCall'.value
             /\ mmu'.cartridge.ram = mmu.cartridge.ram
             /\ \A a \in {40960, 49151} : MMU_read(mmu', a) = LastCall'.value]_vars


\* the machine apart from the joypad lines, which every pass of the main loop
\* polls after the hotkeys
Machine(c, m, p) == <<c, [m EXCEPT !.joypad = Joypad_new], p>>

\* C25: a SaveState::load of a file whose magic is not "GBSTATE" or whose
\* version is not 1 returns false and leaves CPU, bus memory, cartridge, PPU,
\* APU and Timer as they were before the call
C25_LoadRefused ==
    [][(/\ Len(calls') > Len(calls)
        /\ LastCall'.op = "load"
        /\ (state_file'.magic # MAGIC \/ state_file'.version # VERSION))
          => /\ ~LastCall'.ok
             /\ Machine(cpu', mmu', ppu') = Machine(cpu, mmu, ppu)]_vars

\* after a frame of the program, F8 met a file with good magic and version 2
C25_Witness ==
    /\ calls # <<>>
    /\ LastCall.op = "load"
    /\ ~LastCall.ok
    /\ state_file = OtherFile(MAGIC, 2)
    /\ cpu.cycles >= CYCLES_PER_FRAME
    /\ cpu.A # reset.A


\* the call that wrote the file now on disk
SaveCall == calls[CHOOSE i \in 1..Len(calls) : calls[i].op = "save"]

\* C26 as stated: a SaveState::load of the file written by SaveState::save in
\* state S puts every component back to its value in S: CPU registers and
\* flags, WRAM/VRAM/HRAM/OAM/IO/IE, the cartridge, PPU mode, mode_cycles and
\* scanline, the APU and the Timer counters
C26_Original ==
    [][(Len(calls') > Len(calls) /\ LastCall'.op = "load" /\ LastCall'.ok)
          => /\ cpu' = SaveCall'.cpu
             /\ \A f \in MMU_saved \cup {"cartridge"} : mmu'[f] = SaveCall'.mmu[f]
             /\ ppu'.mode = SaveCall'.ppu.mode
             /\ ppu'.mode_cycles = SaveCall'.ppu.mode_cycles
             /\ ppu'.scanline = SaveCall'.ppu.scanline
             /\ mmu'.apu = SaveCall'.mmu.apu
             /\ mmu'.timer = SaveCall'.mmu.timer]_vars


\* C27: after write(0xFF46, v), for every byte v, OAM[i] for i in 0..0x9F is
\* the value read((v << 8) + i) had just before the write, and nothing but
\* OAM and the DMA register byte has changed
C27_Dma ==
    [][(Len(calls') > Len(calls) /\ LastCall'.addr = 65350)
          => /\ \A i \in 0..159 :
                    Get(mmu'.oam, i, 0) = MMU_read(mmu, LastCall'.value * 256 + i)
             /\ [mmu' EXCEPT !.oam = Empty, !.io = Empty] = [mmu EXCEPT !.oam = Empty, !.io = Empty]
             /\ \A r \in 0..127 : Io(mmu', r) = (IF r = 70 THEN LastCall'.value ELSE Io(mmu, r))]_vars

\* v = 0xFF: OAM holds the I/O window and the start of high RAM as they were,
\* the old DMA register byte included
C27_WitnessIo ==
    /\ calls # <<>>
    /\ LastCall = [op |-> "write", addr |-> 65350, value |-> 255]
    /\ Get(mmu.oam, 70, 0) = 192
    /\ Get(mmu.oam, 128, 0) = 81
    /\ Get(mmu.oam, 159, 0) = 82
    /\ Get(mmu.oam, 1, 0) = 0
    /\ Io(mmu, 70) = 255

\* v = 0xFE: the source is OAM itself, which keeps the bytes the earlier
\* transfer from 0xC000 left in it
C27_Witness ==
    /\ calls # <<>>
    /\ LastCall = [op |-> "write", addr |-> 65350, value |-> 254]
    /\ Get(mmu.oam, 0, 0) = 33
    /\ Get(mmu.oam, 1, 0) = 34
    /\ Get(mmu.oam, 159, 0) = 35
    /\ Io(mmu, 70) = 254


\* the last call was mmu.write to an address in lo..hi
Wrote(lo, hi) == calls # <<>> /\ LastCall.op = "write" /\ LastCall.addr >= lo /\ LastCall.addr <= hi

\* C28: every echo address a in 0xE000-0xFDFF reads what a - 0x2000 reads, a
\* write to either alias is read back through both, 0xFEA0-0xFEFF reads 0xFF
\* and a write there changes nothing
C28_Echo ==
    [][Len(calls') > Len(calls)
          => /\ \A a \in {57344, 57345, 61440, 65022, 65023} :
                    MMU_read(mmu', a) = MMU_read(mmu', a - 8192)
             /\ Wrote(49152, 56831)' =>
                    /\ MMU_read(mmu', LastCall'.addr) = LastCall'.value
                    /\ MMU_read(mmu', LastCall'.addr + 8192) = LastCall'.value
             /\ Wrote(57344, 65023)' =>
                    /\ MMU_read(mmu', LastCall'.addr) = LastCall'.value
                    /\ MMU_read(mmu', LastCall'.addr - 8192) = LastCall'.value
             /\ \A a \in {65184, 65185, 65279} : MMU_read(mmu', a) = 255
             /\ Wrote(65184, 65279)' => mmu' = mmu]_vars

\* 0x5A written through the echo, 0xA5 through work RAM itself, then a write
\* to the unusable region
C28_Witness ==
    /\ Len(calls) = 3
    /\ \A i \in 1..3 : calls[i].op = "write"
    /\ <<calls[1].addr, calls[1].value>> = <<65023, 90>>
    /\ <<calls[2].addr, calls[2].value>> = <<49152, 165>>
    /\ <<calls[3].addr, calls[3].value>> = <<65184, 90>>
    /\ MMU_read(mmu, 56831) = 90
    /\ MMU_read(mmu, 57344) = 165
    /\ MMU_read(mmu, 65184) = 255

\* the buttons held at the last poll, the value last written to 0xFF00
Held == IF calls # <<>> /\ calls[1].op = "setButtons" THEN calls[1].value ELSE {}
SelectWrites == SelectSeq(calls, LAMBDA c : c.op = "write" /\ c.addr = 65280)
Selected == SelectWrites[Len(SelectWrites)].value

\* the buttons of line k: action group, direction group
ActionLine == <<BTN_A, BTN_B, BTN_SELECT, BTN_START>>
DpadLine == <<BTN_RIGHT, BTN_LEFT, BTN_UP, BTN_DOWN>>

\* C29: for every set of held buttons and every value last written to 0xFF00,
\* bit k of read(0xFF00) is 0 iff the action group is selected (bit 5 clear)
\* and its k-th button is held, or the direction group is selected (bit 4
\* clear) and its k-th button is held; action group with only A held reads a
\* low nibble of 0x0E, no group reads 0x0F
C29_Joypad ==
    SelectWrites # <<>> =>
        /\ \A k \in 0..3 :
               (Bit(MMU_read(mmu, 65280), k) = 0) <=>
                   \/ Bit(Selected, 5) = 0 /\ ActionLine[k + 1] \in Held
                   \/ Bit(Selected, 4) = 0 /\ DpadLine[k + 1] \in Held
        /\ (Bit(Selected, 5) = 0 /\ Held = {BTN_A}) => MMU_read(mmu, 65280) % 16 = 14
        /\ (Bit(Selected, 5) = 1 /\ Bit(Selected, 4) = 1) => MMU_read(mmu, 65280) % 16 = 15

\* Select and Down held, both groups selected: lines 2 and 3 are low
C29_Witness ==
    /\ Held = {BTN_SELECT, BTN_DOWN}
    /\ SelectWrites # <<>>
    /\ Selected = 0
    /\ MMU_read(mmu, 65280) = 195


\* the opcode at PC; the operand it names: register B C D E H L or A, the byte
\* at (HL), the byte after the opcode; the flags as booleans
OpAtPC == MMU_read(mmu, cpu.PC)
OperandAt(reg) == IF reg = 6 THEN MMU_read(mmu, getHL(cpu)) ELSE Reg8(cpu, reg)
Operand ==
    IF OpAtPC \in {198, 214} THEN MMU_read(mmu, U16(cpu.PC + 1))
    ELSE IF OpAtPC \in 128..151 THEN OperandAt(OpAtPC % 8)
    ELSE OperandAt((OpAtPC \div 8) % 8)
FlagsOf(c) == <<getFlag(c, FLAG_Z), getFlag(c, FLAG_N), getFlag(c, FLAG_H), getFlag(c, FLAG_C)>>

\* C30: for all bytes a, b, in register, (HL) and immediate form: ADD sets H
\* iff (a & 0x0F) + (b & 0x0F) > 0x0F, C iff a + b > 0xFF, Z iff the low byte
\* of a + b is 0, N = 0; SUB sets H iff (a & 0x0F) < (b & 0x0F), C iff a < b,
\* Z iff a = b, N = 1; INC sets H iff (r & 0x0F) = 0x0F, DEC sets H iff
\* (r & 0x0F) = 0, both leaving C as it was
C30_Arithmetic ==
    [][cpu' # cpu =>
          /\ OpAtPC \in AddOps =>
                 FlagsOf(cpu') = << (cpu.A + Operand) % 256 = 0, FALSE,
                                    (cpu.A % 16) + (Operand % 16) > 15, cpu.A + Operand > 255 >>
          /\ OpAtPC \in SubOps =>
                 FlagsOf(cpu') = << cpu.A = Operand, TRUE,
                                    (cpu.A % 16) < (Operand % 16), cpu.A < Operand >>
          /\ OpAtPC \in IncOps =>
                 /\ getFlag(cpu', FLAG_H) = (Operand % 16 = 15)
                 /\ getFlag(cpu', FLAG_C) = getFlag(cpu, FLAG_C)
          /\ OpAtPC \in DecOps =>
                 /\ getFlag(cpu', FLAG_H) = (Operand % 16 = 0)
                 /\ getFlag(cpu', FLAG_C) = getFlag(cpu, FLAG_C)]_vars

\* ADD A,(HL) of 0x0F + 0x01 was executed: A = 0x10, only H set
C30_Witness ==
    /\ loop_pc = "ppu"
    /\ MMU_read(mmu, 256) = 134
    /\ MMU_read(mmu, 49152) = 1
    /\ cpu.PC = 257
    /\ cpu.A = 16
    /\ cpu.F = 32


\* A and Z N H C after a DAA when the 0x60 step looks at the accumulator the
\* 0x06 step left (the steps taken one after the other)
DaaInOrder(a, n, h, c) ==
    IF ~n
    THEN Bind(IF h \/ a % 16 > 9 THEN U8(a + 6) ELSE a, LAMBDA a1 :
         Bind(IF c \/ a1 > 153 THEN U8(a1 + 96) ELSE a1, LAMBDA a2 :
              <<a2, a2 = 0, n, FALSE, c \/ a1 > 153>>))
    ELSE Bind(U8(a + 512 - (IF h THEN 6 ELSE 0) - (IF c THEN 96 ELSE 0)), LAMBDA a2 :
              <<a2, a2 = 0, n, FALSE, c>>)

\* the same when both steps look at the accumulator on entry
DaaOnEntry(a, n, h, c) ==
    IF ~n
    THEN Bind(U8(a + (IF h \/ a % 16 > 9 THEN 6 ELSE 0) + (IF c \/ a > 153 THEN 96 ELSE 0)),
              LAMBDA a2 : <<a2, a2 = 0, n, FALSE, c \/ a > 153>>)
    ELSE Bind(U8(a + 512 - (IF h THEN 6 ELSE 0) - (IF c THEN 96 ELSE 0)), LAMBDA a2 :
              <<a2, a2 = 0, n, FALSE, c>>)

\* C31 as stated: DAA gives the result of the procedure applied in order:
\* first 0x06, then 0x60 and C if C = 1 or A > 0x99
C31_Original ==
    [][(cpu' # cpu /\ OpAtPC = OP_DAA) =>
          <<cpu'.A>> \o FlagsOf(cpu') =
              DaaInOrder(cpu.A, getFlag(cpu, FLAG_N), getFlag(cpu, FLAG_H), getFlag(cpu, FLAG_C))]_vars

\* C31: for every A and every N, H, C, DAA adds (N = 0) 0x06 if H = 1 or the low
\* nibble of A on entry is above 9 and 0x60, setting C, if C = 1 or A on entry
\* is above 0x99, or subtracts (N = 1) 0x06 if H = 1 and 0x60 if C = 1; then
\* Z = (A = 0), H = 0, N as before, C as before unless set by the addition case
C31_Daa ==
    [][(cpu' # cpu /\ OpAtPC = OP_DAA) =>
          <<cpu'.A>> \o FlagsOf(cpu') =
              DaaOnEntry(cpu.A, getFlag(cpu, FLAG_N), getFlag(cpu, FLAG_H), getFlag(cpu, FLAG_C))]_vars

\* DAA of A = 0x94 with H set after an addition: 0x9A, C clear, where the
\* steps taken in order give 0xFA with C
C31_Witness ==
    /\ loop_pc = "ppu"
    /\ MMU_read(mmu, 256) = OP_DAA
    /\ cpu.PC = 257
    /\ cpu.B = 148
    /\ cpu.A = 154
    /\ cpu.F = 0


\* the line whose scanline was just rendered
LineRendered == ppu.mode = HBLANK /\ Get(ppu.renders, ppu.scanline, 0) > 0

\* sprite 0 had a row drawn on the current line
Sprite0Drawn == \E t \in ppu.sprites : t[1] = ppu.scanline /\ t[2] = 0

\* C32: once a visible line was rendered with sprites enabled, sprite 0 was
\* drawn on it exactly when Y - 16 <= line < Y - 16 + height in signed
\* arithmetic, Y its OAM byte, and the row drawn is line - (Y - 16)
C32_Original ==
    LineRendered =>
        /\ Sprite0Drawn <=>
              (/\ y_pos_signed(mmu, 0) <= ppu.scanline
               /\ ppu.scanline < y_pos_signed(mmu, 0) + sprite_height(mmu))
        /\ \A t \in ppu.sprites : t[3] = t[1] - y_pos_signed(mmu, t[2])


\* the keyboard states read so far, one per pass of the display loop
KeyPolls == SelectSeq(calls, LAMBDA c : c.op = "handleEvents")

\* the pass that was just made called SaveState::save / SaveState::load
PassCalled(op) == \E i \in (Len(calls) + 1)..Len(calls') : calls'[i].op = op

\* the key (f5 or f8) is down in the pass just made and was up in the pass before
NewPress(key) ==
    /\ KeyPolls # <<>>
    /\ ~KeyPolls[Len(KeyPolls)][key]
    /\ calls'[Len(calls) + 1][key]

\* the key is down in the pass just made and was down in the pass before
StillHeld(key) ==
    /\ KeyPolls # <<>>
    /\ KeyPolls[Len(KeyPolls)][key]
    /\ calls'[Len(calls) + 1][key]

\* C33 as stated: a pass of the display loop that finds F5 down after a pass
\* that found it up calls SaveState::save, a pass that finds it still down
\* does not; the same for F8 and SaveState::load
C33_Original ==
    [][Len(calls') > Len(calls)
          => /\ NewPress("f5") => PassCalled("save")
             /\ StillHeld("f5") => ~PassCalled("save")
             /\ NewPress("f8") => PassCalled("load")
             /\ StillHeld("f8") => ~PassCalled("load")]_vars


\* the CB-prefixed opcode about to be executed
CbAtPC == MMU_read(mmu, U16(cpu.PC + 1))

\* the CPU is about to execute SRA on a register (CB 0x28-0x2D, 0x2F)
SraNext == OpAtPC = OP_CB /\ CbAtPC \in 40..47 /\ CbAtPC % 8 # 6

\* C34 as stated: CB SRA r leaves (r >> 1) | (r & 0x80) in the register, C the
\* old bit 0, Z set iff the result is 0, N and H clear
C34_Original ==
    [][SraNext
          => /\ Reg8(cpu', CbAtPC % 8)
                   = (Reg8(cpu, CbAtPC % 8) \div 2) + And8(Reg8(cpu, CbAtPC % 8), 128)
             /\ FlagsOf(cpu') = <<Reg8(cpu', CbAtPC % 8) = 0, FALSE, FALSE,
                                  Reg8(cpu, CbAtPC % 8) % 2 = 1>>]_vars


\* the CPU is about to execute a CB-prefixed opcode on (HL)
CbHlNext == OpAtPC = OP_CB /\ CbAtPC % 8 = 6

\* C35 as stated: a CPU::step executing a CB rotate/shift, RES or SET on (HL)
\* advances cycles by 16, one executing BIT b,(HL) by 12, and BIT b,(HL) leaves
\* the byte at HL as it was
C35_Original ==
    [][CbHlNext
          => /\ cpu'.cycles - cpu.cycles = (IF CbAtPC \in 64..127 THEN 12 ELSE 16)
             /\ CbAtPC \in 64..127 => MMU_read(mmu', getHL(cpu)) = MMU_read(mmu, getHL(cpu))]_vars

\* the cycles the step takes in CPU::step: 24 and 16
C35_Cycles ==
    [][CbHlNext
          => /\ cpu'.cycles - cpu.cycles = (IF CbAtPC \in 64..127 THEN 16 ELSE 24)
             /\ CbAtPC \in 64..127 => mmu' = mmu]_vars


\* C36 as stated: after bus writes to the sound registers, a bus read of 0xFF26
\* has bit 0 set iff square channel 1 is enabled and bit 1 iff square channel 2
\* is, and a bus read of the register last written returns what APU::read
\* returns for it
C36_Original ==
    calls # <<>>
       => /\ TEST_BIT(MMU_read(mmu, 65318), 0) <=> mmu.apu.ch1.enabled
          /\ TEST_BIT(MMU_read(mmu, 65318), 1) <=> mmu.apu.ch2.enabled
          /\ MMU_read(mmu, LastCall.addr) = APU_read(mmu.apu, LastCall.addr)


\* C37 as stated: whenever a pass of the inner loop has ended, the byte read
\* at 0xFF44 is the scanline counter of the PPU, also after the LCD was
\* switched off and on and after a CPU write to 0xFF44
C37_Original == loop_pc = "cpu" => MMU_read(mmu, 65348) = ppu.scanline


\* C38: with the LCD on, when a ppu.step of the frame loop has returned,
\* mode_cycles is below the length of the mode the PPU is in (80, 172, 204,
\* 456), also after a CPU step that dispatched an interrupt: no second mode
\* transition is due
C38_ModeCycles ==
    (loop_pc = "timer" /\ LcdOn) => ppu.mode_cycles < ModeLength(ppu.mode)

\* CALL 0xC006 followed by the dispatch of the V-blank interrupt took the PPU
\* from 4 cycles before the end of the OAM scan into pixel transfer
C38_Witness ==
    /\ loop_pc = "timer" /\ LcdOn
    /\ iterations = 0
    /\ hist[1].op = 205 /\ cpu.PC = 64
    /\ cycles_elapsed >= 48
    /\ ppu.mode = VRAM /\ ppu.mode_cycles = cycles_elapsed - 4


\* the RTC registers of the cartridge
RtcOf(cart) == <<cart.rtc_seconds, cart.rtc_minutes, cart.rtc_hours, cart.rtc_days_low,
                 cart.rtc_days_high>>

\* C39 as stated: for every cartridge type and RAM size, after any bus write
\* that leaves the RAM-enable flag false the reads of 0xA000-0xBFFF return
\* 0xFF, and a write to that range made with the flag false changes neither
\* the cartridge RAM nor the RTC registers
C39_Original ==
    [][Len(calls') > Len(calls)
          => /\ ~mmu'.cartridge.ram_enabled
                   => \A addr \in {40960, 41472, 49151} : MMU_read(mmu', addr) = 255
             /\ (~mmu.cartridge.ram_enabled /\ LastCall'.addr \in 40960..49151)
                   => /\ mmu'.cartridge.ram = mmu.cartridge.ram
                      /\ RtcOf(mmu'.cartridge) = RtcOf(mmu.cartridge)]_vars


\* the instruction of the step recorded in m was followed by a dispatch
Serviced(m) == m.ran /\ m.ime /\ Pending(m) # 0

\* the 16-bit word the bus holds at a
WordAt(m, a) == Word(MMU_read(m, U16(a + 1)), MMU_read(m, a))

\* the two bytes below s are plain RAM
StackIn(s) == PlainRAM(U16(s + 65534)) /\ PlainRAM(U16(s + 65535))

\* the step about to be made executes RETI and dispatches nothing after it
RetiStep == CpuStep /\ mid'.ran /\ OpAtPC = OP_RETI /\ Pending(mid') = 0

\* C40: a dispatch at PC = p, SP = s with the stack in plain RAM leaves p at
\* s - 2; a RETI step that dispatches nothing puts the word at SP into PC,
\* adds 2 to SP and has IME true on return; so a RETI that finds SP = s - 2
\* and the two bytes as written ends with PC = p, SP = s and IME true, as
\* checked end to end for the handler that is the RETI alone
C40_Reti ==
    [][/\ (CpuStep /\ Serviced(mid') /\ StackIn(mid'.SP))
            => /\ cpu'.SP = U16(mid'.SP + 65534)
               /\ WordAt(mmu', cpu'.SP) = mid'.PC
       /\ RetiStep
            => /\ cpu'.PC = WordAt(mmu, cpu.SP)
               /\ cpu'.SP = U16(cpu.SP + 2)
               /\ cpu'.ime
       /\ (RetiStep /\ Serviced(mid) /\ StackIn(mid.SP))
            => /\ cpu'.PC = mid.PC
               /\ cpu'.SP = mid.SP
               /\ cpu'.ime]_vars

\* INC A at 0x0100 was followed by the dispatch of the timer interrupt from
\* SP = 0xD000; the handler INC A, RETI has returned to 0x0101 with IME set
C40_Witness ==
    /\ AfterCpuStep /\ Len(hist) = 3
    /\ hist[1].op = 60 /\ hist[1].pc = 256 /\ hist[1].sp = 53248 /\ hist[1].ime0
    /\ hist[2].op = 60 /\ hist[2].pc = 80 /\ hist[2].sp = 53246
    /\ hist[3].op = OP_RETI /\ hist[3].pc = 81 /\ hist[3].sp = 53246
    /\ cpu.PC = 257 /\ cpu.SP = 53248 /\ cpu.ime
    /\ cpu.A = U8(reset.A + 2)

=============================================================================
